---- MODULE Spec2Model ----
(***************************************************************************)
(* Trade copier: the change detector (src/src/tracker.py), the data model  *)
(* (src/src/models.py), the replication cycle (src/src/copier.py) and the  *)
(* venue boundary of src/src/mt5_connector.py.                             *)
(*                                                                         *)
(* Units.  Prices (stop_loss, take_profit) are integers counted in units   *)
(* of the detector's tolerance 0.000001, 0 meaning "not set"; volumes and  *)
(* lot values are integers counted in hundredths of a lot.  A Python dict  *)
(* is a sequence of records with pairwise distinct tickets, in insertion   *)
(* order.  Position fields that no modelled code reads (open_price, magic, *)
(* profit, swap, open_time, the master's comment) are left out.            *)
(***************************************************************************)
EXTENDS Integers, Sequences, FiniteSets, TLC

VARIABLES
    copy_sl,        \* TradeCopier.copy_sl
    copy_tp,        \* TradeCopier.copy_tp
    previous,       \* PositionTracker._previous, ticket -> Position in insertion order
    signals,        \* the list the last compute_signals call returned
    prevBefore,     \* history: _previous as it was when that call began
    snapshot,       \* history: the current_positions argument of that call
    pc,             \* position of the control loop / of the detector driver
    running,        \* TradeCopier._running
    master,         \* the venue's open positions of the master account, as it lists them
    nextTicket,     \* the ticket the venue gives the master's next position
    slavePos,       \* slave name -> the venue's open positions of that account
    lastPoll,       \* history: how the cycle's _poll_master call ended
    sigIdx,         \* _run_cycle: index of the signal being propagated
    slaveIdx,       \* _run_cycle: index of the slave the signal goes to next
    results,        \* history: the CopyResults of the cycle, in the order produced
    total_opens,    \* TradeCopier.total_opens
    total_closes,   \* TradeCopier.total_closes
    total_modifies, \* TradeCopier.total_modifies
    total_errors,   \* TradeCopier.total_errors
    faults,         \* how many venue calls have failed so far
    restarts,       \* how many times the copier has been started again
    summaries,      \* the session summaries the copier has logged
    ui,             \* the desktop application: its fields, copiers and threads
    session,        \* the account the process's terminal session is open for
    workers,        \* the threads that connect: where each is, and its connector
    arg,            \* the arguments of a call made on its own
    ret             \* what that call has done so far, and what it returned

trackerVars == <<copy_sl, copy_tp, previous, signals, prevBefore, snapshot>>
counters == <<total_opens, total_closes, total_modifies, total_errors>>
cycleVars == <<lastPoll, sigIdx, slaveIdx, results>>
venueVars == <<master, nextTicket, slavePos>>
envVars == <<faults, restarts, summaries, ui, session, workers>>
callVars == <<arg, ret>>
vars == <<trackerVars, pc, running, venueVars, cycleVars, counters, envVars, callVars>>

(* TradeCopierApp.__init__: the configuration loaded at launch, no copier,  *)
(* no thread, nothing running.  A configuration is named by the generation *)
(* of the configuration file it was loaded from.                           *)
TradeCopierApp ==
    [master_cfg |-> 0, slave_cfgs |-> 0, settings |-> 0,
     running |-> FALSE, copier_instance |-> 0,
     handler |-> "none", after |-> 0, saved |-> 0,
     copiers |-> <<>>, threads |-> <<>>]

(* the connector of the copier's cycle, the connection probe and the       *)
(* accounts dialog's connection test, none of them started; last is the    *)
(* history of the copier's latest gateway call: what was called, for which *)
(* account, and the session the process had at that moment                 *)
NoWorkers ==
    [copier |-> [step |-> "connect", k |-> 0, connected |-> FALSE],
     probe |-> [at |-> "none", idx |-> 1, connected |-> FALSE],
     test |-> [at |-> "none", account |-> "none", connected |-> FALSE],
     last |-> [op |-> "none", account |-> "none", session |-> "none"]]

----------------------------------------------------------------------------
(* Bounds and program constants *)

(* no call has been made on its own *)
NoCall == [op |-> "none"]

MaxTicket == 2
MaxPrice == 2
Eps == 1

Tickets == 1..MaxTicket
PriceVals == 0..MaxPrice

(* A position's symbol, side and volume are fixed by the venue when the    *)
(* ticket is created; the table gives the trade behind each master ticket. *)
SymbolOf(t) == IF t % 2 = 1 THEN "EURUSD" ELSE "GBPUSD"
OrderTypeOf(t) == IF t % 2 = 1 THEN "BUY" ELSE "SELL"
VolumeOf(t) == IF t % 2 = 1 THEN 100 ELSE 200

----------------------------------------------------------------------------
(* Data model *)

Position(t, sl, tp) ==
    [ticket |-> t, symbol |-> SymbolOf(t), order_type |-> OrderTypeOf(t),
     volume |-> VolumeOf(t), stop_loss |-> sl, take_profit |-> tp,
     comment |-> <<>>]

CopySignal(type, t, sym, ot, vol, sl, tp) ==
    [signal_type |-> type, master_ticket |-> t, symbol |-> sym,
     order_type |-> ot, volume |-> vol, stop_loss |-> sl, take_profit |-> tp]

Abs(x) == IF x < 0 THEN -x ELSE x

Keys(m) == {m[i].ticket : i \in 1..Len(m)}

Lookup(m, t) == m[CHOOSE i \in 1..Len(m) : m[i].ticket = t]

DictPut(m, p) ==
    IF p.ticket \in Keys(m)
    THEN [i \in 1..Len(m) |-> IF m[i].ticket = p.ticket THEN p ELSE m[i]]
    ELSE Append(m, p)

RECURSIVE DictFromPrefix(_, _)
DictFromPrefix(l, n) ==
    IF n = 0 THEN <<>> ELSE DictPut(DictFromPrefix(l, n - 1), l[n])

(* current_map = {p.ticket: p for p in current_positions} *)
CurrentMap(current_positions) ==
    DictFromPrefix(current_positions, Len(current_positions))

----------------------------------------------------------------------------
(* PositionTracker.compute_signals *)

OpenSignalsNoFilter(prev, cur, csl, ctp) ==
    [i \in 1..Len(cur) |->
        CopySignal("open", cur[i].ticket, cur[i].symbol, cur[i].order_type,
                   cur[i].volume,
                   IF csl THEN cur[i].stop_loss ELSE 0,
                   IF ctp THEN cur[i].take_profit ELSE 0)]

OpenSignalsAlsoForMoved(prev, cur, csl, ctp) ==
    LET IsNew(p) ==
            \/ p.ticket \notin Keys(prev)
            \/ p.stop_loss # Lookup(prev, p.ticket).stop_loss
        news == SelectSeq(cur, IsNew)
    IN  [i \in 1..Len(news) |->
            CopySignal("open", news[i].ticket, news[i].symbol, news[i].order_type,
                       news[i].volume,
                       IF csl THEN news[i].stop_loss ELSE 0,
                       IF ctp THEN news[i].take_profit ELSE 0)]

OpenSignals(prev, cur, csl, ctp) ==
    LET IsNew(p) == p.ticket \notin Keys(prev)
        news == SelectSeq(cur, IsNew)
    IN  [i \in 1..Len(news) |->
            CopySignal("open", news[i].ticket, news[i].symbol, news[i].order_type,
                       news[i].volume,
                       IF csl THEN news[i].stop_loss ELSE 0,
                       IF ctp THEN news[i].take_profit ELSE 0)]

CloseSignalsOfCurrent(prev, cur) ==
    [i \in 1..Len(cur) |->
        CopySignal("close", cur[i].ticket, cur[i].symbol, "None", 0, 0, 0)]

CloseSignals(prev, cur) ==
    LET IsGone(p) == p.ticket \notin Keys(cur)
        gone == SelectSeq(prev, IsGone)
    IN  [i \in 1..Len(gone) |->
            CopySignal("close", gone[i].ticket, gone[i].symbol, "None", 0, 0, 0)]

ModifySignalsAtTolerance(prev, cur, csl, ctp) ==
    LET Changed(p) ==
            /\ p.ticket \in Keys(prev)
            /\ \/ csl /\ Abs(p.stop_loss - Lookup(prev, p.ticket).stop_loss) >= Eps
               \/ ctp /\ Abs(p.take_profit - Lookup(prev, p.ticket).take_profit) >= Eps
        mods == SelectSeq(cur, Changed)
    IN  [i \in 1..Len(mods) |->
            CopySignal("modify", mods[i].ticket, mods[i].symbol, "None", 0,
                       mods[i].stop_loss, mods[i].take_profit)]

ModifySignalsOnVolume(prev, cur, csl, ctp) ==
    LET Changed(p) ==
            /\ p.ticket \in Keys(prev)
            /\ \/ csl /\ Abs(p.stop_loss - Lookup(prev, p.ticket).stop_loss) > Eps
               \/ ctp /\ Abs(p.take_profit - Lookup(prev, p.ticket).take_profit) > Eps
               \/ p.volume # Lookup(prev, p.ticket).volume
        mods == SelectSeq(cur, Changed)
    IN  [i \in 1..Len(mods) |->
            CopySignal("modify", mods[i].ticket, mods[i].symbol, "None", 0,
                       mods[i].stop_loss, mods[i].take_profit)]

ModifySignals(prev, cur, csl, ctp) ==
    LET Changed(p) ==
            /\ p.ticket \in Keys(prev)
            /\ \/ csl /\ Abs(p.stop_loss - Lookup(prev, p.ticket).stop_loss) > Eps
               \/ ctp /\ Abs(p.take_profit - Lookup(prev, p.ticket).take_profit) > Eps
        mods == SelectSeq(cur, Changed)
    IN  [i \in 1..Len(mods) |->
            CopySignal("modify", mods[i].ticket, mods[i].symbol, "None", 0,
                       mods[i].stop_loss, mods[i].take_profit)]

ComputedSignalsModifiesFirst(prev, current_positions, csl, ctp) ==
    LET cur == CurrentMap(current_positions)
    IN  OpenSignals(prev, cur, csl, ctp) \o ModifySignals(prev, cur, csl, ctp)
            \o CloseSignals(prev, cur)

ComputedSignalsReplacedEarly(prev, current_positions, csl, ctp) ==
    LET cur == CurrentMap(current_positions)
    IN  OpenSignals(prev, cur, csl, ctp) \o CloseSignals(prev, cur)
            \o ModifySignals(cur, cur, csl, ctp)

ComputedSignals(prev, current_positions, csl, ctp) ==
    LET cur == CurrentMap(current_positions)
    IN  OpenSignals(prev, cur, csl, ctp) \o CloseSignals(prev, cur)
            \o ModifySignals(prev, cur, csl, ctp)

RetainedStale(prev, current_positions) == prev

RetainedKnownOnly(prev, current_positions) ==
    LET IsKnown(p) == p.ticket \in Keys(prev)
    IN  SelectSeq(CurrentMap(current_positions), IsKnown)

(* self._previous = current_map *)
Retained(prev, current_positions) == CurrentMap(current_positions)

compute_signals(current_positions) ==
    /\ signals' = ComputedSignals(previous, current_positions, copy_sl, copy_tp)
    /\ previous' = Retained(previous, current_positions)
    /\ prevBefore' = previous
    /\ snapshot' = current_positions

reset == previous' = <<>>

(* PositionTracker.known_tickets *)
known_tickets == [i \in 1..Len(previous) |-> previous[i].ticket]

----------------------------------------------------------------------------
(* Configuration: AccountConfig and the copier's view of it *)

(* lot_value is counted in 1/10000 of a lot (0.5 is 5000) *)
AccountConfig(name, enabled, mode, value) ==
    [name |-> name, enabled |-> enabled, lot_mode |-> mode, lot_value |-> value]

ConfiguredSlaves ==
    << AccountConfig("A", TRUE, "multiplier", 5000),
       AccountConfig("B", TRUE, "fixed", 5000),
       AccountConfig("D", FALSE, "multiplier", 10000) >>

SlaveNames == {ConfiguredSlaves[i].name : i \in 1..Len(ConfiguredSlaves)}

AllConfigured(cfgs) == cfgs

EnabledReversed(cfgs) ==
    LET IsEnabled(c) == c.enabled
        kept == SelectSeq(cfgs, IsEnabled)
    IN  [i \in 1..Len(kept) |-> kept[Len(kept) + 1 - i]]

(* self.slave_configs = [s for s in slave_configs if s.enabled] *)
EnabledOnly(cfgs) ==
    LET IsEnabled(c) == c.enabled IN SelectSeq(cfgs, IsEnabled)

slave_configs == EnabledOnly(ConfiguredSlaves)

(* round(n / d) to the nearest integer, ties to even, for n >= 0 and d > 0 *)
RoundHalfEven(n, d) ==
    LET q == n \div d
        r == n % d
    IN  IF 2 * r < d THEN q
        ELSE IF 2 * r > d THEN q + 1
        ELSE IF q % 2 = 0 THEN q ELSE q + 1

calculate_lot_scaled(cfg, master_lot) ==
    RoundHalfEven(master_lot * cfg.lot_value, 10000)

(* AccountConfig.calculate_lot, in hundredths of a lot *)
calculate_lot(cfg, master_lot) ==
    IF cfg.lot_mode = "fixed"
    THEN RoundHalfEven(cfg.lot_value, 100)
    ELSE RoundHalfEven(master_lot * cfg.lot_value, 10000)

----------------------------------------------------------------------------
(* The correlation tag: strings are sequences of characters *)

DigitChars == <<"0", "1", "2", "3", "4", "5", "6", "7", "8", "9">>

RECURSIVE Str(_)
Str(n) ==
    IF n < 10 THEN <<DigitChars[n + 1]>>
    ELSE Str(n \div 10) \o <<DigitChars[(n % 10) + 1]>>

slave_comment_untagged(sig) == Str(sig.master_ticket)

(* CopySignal.slave_comment: f"MC-{self.master_ticket}" *)
slave_comment(sig) == <<"M", "C", "-">> \o Str(sig.master_ticket)

IsDecimal(cs) ==
    /\ Len(cs) > 0
    /\ \A i \in 1..Len(cs) : \E d \in 1..10 : DigitChars[d] = cs[i]

DigitVal(ch) == (CHOOSE d \in 1..10 : DigitChars[d] = ch) - 1

RECURSIVE IntOf(_)
IntOf(cs) ==
    IF Len(cs) = 0 THEN 0
    ELSE 10 * IntOf(SubSeq(cs, 1, Len(cs) - 1)) + DigitVal(cs[Len(cs)])

(* int() reads a literal with blanks around it and a sign before it *)
RECURSIVE LStrip(_)
LStrip(cs) == IF Len(cs) > 0 /\ cs[1] = " " THEN LStrip(Tail(cs)) ELSE cs

RECURSIVE RStrip(_)
RStrip(cs) ==
    IF Len(cs) > 0 /\ cs[Len(cs)] = " "
    THEN RStrip(SubSeq(cs, 1, Len(cs) - 1)) ELSE cs

Unsigned(cs) == IF Len(cs) > 0 /\ cs[1] \in {"+", "-"} THEN Tail(cs) ELSE cs

(* int(cs) does not raise ValueError *)
IsIntLiteral(cs) == IsDecimal(Unsigned(RStrip(LStrip(cs))))

(* int(cs) *)
IntValue(cs) ==
    LET body == RStrip(LStrip(cs))
    IN  IF Len(body) > 0 /\ body[1] = "-"
        THEN 0 - IntOf(Unsigned(body)) ELSE IntOf(Unsigned(body))

(* pos.comment.startswith("MC-") and int(pos.comment[3:]) does not raise *)
IsCopied(pos) ==
    /\ Len(pos.comment) >= 3
    /\ SubSeq(pos.comment, 1, 3) = <<"M", "C", "-">>
    /\ IsIntLiteral(SubSeq(pos.comment, 4, Len(pos.comment)))

MasterTicketOf(pos) == IntValue(SubSeq(pos.comment, 4, Len(pos.comment)))

(* MT5Connector.get_copied_positions: master ticket -> slave position, the  *)
(* last position listed winning when two decode to the same ticket.         *)
get_copied_positions(positions) ==
    LET tagged == {i \in 1..Len(positions) : IsCopied(positions[i])}
        keys == {MasterTicketOf(positions[i]) : i \in tagged}
        Last(k) == CHOOSE i \in tagged :
                      /\ MasterTicketOf(positions[i]) = k
                      /\ \A j \in tagged : MasterTicketOf(positions[j]) = k => j <= i
    IN  [k \in keys |-> positions[Last(k)]]

----------------------------------------------------------------------------
(* The venue, as the connector's calls change it *)

MaxSlavePos == 2
MaxFaults == 1
MaxRestarts == 1

(* a ticket the venue has not given to an open position of the account *)
FreshTicket(positions) ==
    CHOOSE n \in 101..(101 + Len(positions)) :
        \A i \in 1..Len(positions) : positions[i].ticket # n

(* MT5Connector.open_position, order filled: the request's fields *)
OpenedPosition(positions, sig, slave_lot, csl, ctp) ==
    [ticket |-> FreshTicket(positions),
     symbol |-> sig.symbol,
     order_type |-> IF sig.order_type = "BUY" THEN "BUY" ELSE "SELL",
     volume |-> slave_lot,
     stop_loss |-> IF csl THEN sig.stop_loss ELSE 0,
     take_profit |-> IF ctp THEN sig.take_profit ELSE 0,
     comment |-> slave_comment(sig)]

(* MT5Connector.close_position, order filled: the position is gone *)
WithoutTicket(positions, ticket) ==
    LET Stays(p) == p.ticket # ticket IN SelectSeq(positions, Stays)

(* MT5Connector.modify_position, request done: TRADE_ACTION_SLTP *)
WithSlTp(positions, ticket, sl, tp) ==
    [i \in 1..Len(positions) |->
        IF positions[i].ticket = ticket
        THEN [positions[i] EXCEPT !.stop_loss = sl, !.take_profit = tp]
        ELSE positions[i]]

----------------------------------------------------------------------------
(* TradeCopier: applying one signal to one slave *)

(* no close or modify request was built *)
NoRequest == [action |-> "none"]

(* MT5Connector.close_position: the request *)
close_request(slave_position) ==
    [action |-> "DEAL", position |-> slave_position.ticket,
     symbol |-> slave_position.symbol, volume |-> slave_position.volume,
     type |-> IF slave_position.order_type = "BUY" THEN "SELL" ELSE "BUY"]

(* MT5Connector.modify_position: the request *)
modify_request(slave_ticket, stop_loss, take_profit) ==
    [action |-> "SLTP", position |-> slave_ticket, sl |-> stop_loss,
     tp |-> take_profit]

(* What a handler leaves behind: the CopyResult's fields, the account's    *)
(* positions, the counter it incremented, the gateway calls it made, the   *)
(* fault a gateway call raised ("" when none did), and whether the handler *)
(* raised instead of returning.                                            *)
Outcome(status, ticket, msg, positions, counter, calls) ==
    [status |-> status, slave_ticket |-> ticket, error_message |-> msg,
     positions |-> positions, counter |-> counter, calls |-> calls,
     fault |-> "", raised |-> FALSE, request |-> NoRequest]

(* an exception e leaving a gateway call; msg is str(e) *)
Raised(msg, positions, calls) ==
    [status |-> "none", slave_ticket |-> "None", error_message |-> msg,
     positions |-> positions, counter |-> "none", calls |-> calls,
     fault |-> msg, raised |-> TRUE, request |-> NoRequest]

handle_open_unsized(sig, cfg, positions, csl, ctp, order) ==
    LET slave_lot == calculate_lot(cfg, sig.volume)
        opened == OpenedPosition(positions, sig, slave_lot, csl, ctp)
    IN  CASE order = "done" ->
                Outcome("success", opened.ticket, "",
                        Append(positions, opened), "opens", <<"open_position">>)
          [] order = "fail" ->
                Outcome("failed", "None", "open_position returned None",
                        positions, "errors", <<"open_position">>)
          [] order = "raise" ->
                Raised("open_position fault", positions, <<"open_position">>)

(* TradeCopier._handle_open; order is how connector.open_position ended *)
handle_open(sig, cfg, positions, csl, ctp, order) ==
    LET slave_lot == calculate_lot(cfg, sig.volume)
        opened == OpenedPosition(positions, sig, slave_lot, csl, ctp)
    IN  IF slave_lot <= 0
        THEN Outcome("skipped", "None", "lot size <= 0", positions, "none", <<>>)
        ELSE CASE order = "done" ->
                    Outcome("success", opened.ticket, "",
                            Append(positions, opened), "opens", <<"open_position">>)
               [] order = "fail" ->
                    Outcome("failed", "None", "open_position returned None",
                            positions, "errors", <<"open_position">>)
               [] order = "raise" ->
                    Raised("open_position fault", positions, <<"open_position">>)

handle_close_miss_is_error(sig, positions, read, order) ==
    Outcome("failed", "None", "No copied position found", positions, "errors",
            <<"get_positions">>)

(* TradeCopier._handle_close; read is how get_positions ended *)
handle_close(sig, positions, read, order) ==
    LET listed == IF read = "list" THEN positions ELSE <<>>
        copied == get_copied_positions(listed)
        found == sig.master_ticket \in DOMAIN copied
        slave_pos == copied[sig.master_ticket]
    IN  IF read = "raise"
        THEN Raised("get_positions fault", positions, <<"get_positions">>)
        ELSE IF ~found
        THEN Outcome("skipped", "None", "No copied position found",
                     positions, "none", <<"get_positions">>)
        ELSE \* the venue closes the position the request names, if it is there
             LET request == close_request(slave_pos)
                 out ==
                    CASE order = "done" /\ request.position \in Keys(positions) ->
                            Outcome("success", slave_pos.ticket, "",
                                    WithoutTicket(positions, request.position), "closes",
                                    <<"get_positions", "close_position">>)
                      [] order = "raise" ->
                            Raised("close_position fault", positions,
                                   <<"get_positions", "close_position">>)
                      [] OTHER ->
                            Outcome("failed", "None", "close_position returned False",
                                    positions, "errors",
                                    <<"get_positions", "close_position">>)
             IN  [out EXCEPT !.request = request]

(* TradeCopier._handle_modify *)
handle_modify(sig, positions, read, order) ==
    LET listed == IF read = "list" THEN positions ELSE <<>>
        copied == get_copied_positions(listed)
        found == sig.master_ticket \in DOMAIN copied
        slave_pos == copied[sig.master_ticket]
    IN  IF read = "raise"
        THEN Raised("get_positions fault", positions, <<"get_positions">>)
        ELSE IF ~found
        THEN Outcome("skipped", "None", "No copied position found",
                     positions, "none", <<"get_positions">>)
        ELSE LET request == modify_request(slave_pos.ticket, sig.stop_loss,
                                           sig.take_profit)
                 out ==
                    CASE order = "done" ->
                            Outcome("success", slave_pos.ticket, "",
                                    WithSlTp(positions, request.position,
                                             request.sl, request.tp),
                                    "modifies", <<"get_positions", "modify_position">>)
                      [] order = "fail" ->
                            Outcome("failed", "None", "modify_position returned False",
                                    positions, "errors",
                                    <<"get_positions", "modify_position">>)
                      [] order = "raise" ->
                            Raised("modify_position fault", positions,
                                   <<"get_positions", "modify_position">>)
             IN  [out EXCEPT !.request = request]

Dispatch(sig, cfg, positions, csl, ctp, read, order) ==
    CASE sig.signal_type = "open" -> handle_open(sig, cfg, positions, csl, ctp, order)
      [] sig.signal_type = "close" -> handle_close(sig, positions, read, order)
      [] sig.signal_type = "modify" -> handle_modify(sig, positions, read, order)

(* an exception that nothing catches leaves the handler as it was raised *)
Uncaught(out) == out

(* the except clause of _apply_signal_to_slave *)
Caught(out) ==
    IF out.raised
    THEN [out EXCEPT !.status = "failed", !.raised = FALSE]
    ELSE out

(* TradeCopier._apply_signal_to_slave; conn is how connector.connect ended *)
apply_signal_to_slave(sig, cfg, positions, csl, ctp, conn, read, order) ==
    LET out ==
            CASE conn = "fail" ->
                    Outcome("failed", "None", "Could not connect to slave terminal",
                            positions, "none", <<>>)
              [] conn = "raise" -> Raised("connect fault", positions, <<>>)
              [] conn = "ok" -> Dispatch(sig, cfg, positions, csl, ctp, read, order)
        done == Caught(out)
    IN  [done EXCEPT !.calls = <<"connect">> \o done.calls \o <<"shutdown">>]

(* The CopyResult, with the history of the application beside it: the     *)
(* gateway calls made, how connect, get_positions and the order call would *)
(* end for this account, and the fault raised.                            *)
CopyResult(cfg, sig, out, gateway) ==
    [slave_name |-> cfg.name, signal |-> sig, status |-> out.status,
     slave_ticket |-> out.slave_ticket, error_message |-> out.error_message,
     calls |-> out.calls, gateway |-> gateway, fault |-> out.fault,
     raised |-> out.raised, request |-> out.request]

----------------------------------------------------------------------------
(* TradeCopier: the control loop *)

ConnectOutcomes == {"ok", "fail", "raise"}
ReadOutcomes == {"list", "no_result", "raise"}
OrderOutcomes == {"done", "fail", "raise"}

(* 1 when one of the venue calls of a step did not succeed *)
Failures(outcomes) ==
    IF \A i \in 1..Len(outcomes) : outcomes[i] \in {"ok", "list", "done", "-"}
    THEN 0 ELSE 1

Called(calls, names) == \E i \in 1..Len(calls) : calls[i] \in names

(* how the calls that were made ended; "-" for a call that was not made *)
Consulted(conn, read, order, calls) ==
    << conn,
       IF Called(calls, {"get_positions"}) THEN read ELSE "-",
       IF Called(calls, {"open_position", "close_position", "modify_position"})
       THEN order ELSE "-" >>

None == [is_none |-> TRUE, list |-> <<>>]
Some(l) == [is_none |-> FALSE, list |-> l]

(* MT5Connector.connect: the connector's _connected and the process's     *)
(* session.  A connect that fails has no session left (initialize failed, *)
(* or account_info gave nothing and the session was shut down); one that  *)
(* raises did so in initialize.                                           *)
connect(before, account, conn) ==
    [connected |-> conn = "ok",
     session |-> CASE conn = "ok" -> account
                   [] conn = "fail" -> "none"
                   [] conn = "raise" -> before]

(* MT5Connector.shutdown *)
shutdown(connector) ==
    IF connector.connected THEN "none" ELSE connector.session

(* a shutdown that is reached on return only *)
ShutdownOnReturn(connector, raised) ==
    IF raised THEN connector.session ELSE shutdown(connector)

(* finally: connector.shutdown(), whether the body returned or raised *)
Finally(connector, raised) == shutdown(connector)

(* the session that connect, the body and the finally clause leave *)
SessionAfter(before, account, conn, raised) ==
    Finally(connect(before, account, conn), raised)

PollFailureAsEmpty(positions, conn, read) ==
    IF conn = "ok" /\ read = "list" THEN Some(positions) ELSE Some(<<>>)

(* TradeCopier._poll_master with MT5Connector.get_positions: the list read, *)
(* or None.  A positions_get() that returns no result reads as [].          *)
poll_master(positions, conn, read) ==
    IF conn # "ok" THEN None
    ELSE CASE read = "list" -> Some(positions)
           [] read = "no_result" -> Some(<<>>)
           [] read = "raise" -> None

PollOutcome(conn, read) ==
    IF conn = "fail" THEN "connect_failed"
    ELSE IF conn = "raise" THEN "raised"
    ELSE IF read = "raise" THEN "raised"
    ELSE IF read = "no_result" THEN "no_result"
    ELSE "ok"

(* a cycle that enters the loops whatever the detector returned *)
AlwaysApply(sigs) == "apply"

(* _run_cycle: if not signals: return *)
AfterDetect(sigs) == IF sigs = <<>> THEN "noop" ELSE "apply"

(* _run_cycle, steps 1 and 2: poll the master, compute what changed *)
Poll ==
    /\ pc = "idle"
    /\ running
    /\ \E conn \in ConnectOutcomes, read \in ReadOutcomes :
        \E master_positions \in {poll_master(master, conn, read)} :
        /\ faults' = faults + Failures(<<conn, IF conn = "ok" THEN read ELSE "-">>)
        /\ faults' <= MaxFaults
        /\ lastPoll' = PollOutcome(conn, read)
        /\ session' = SessionAfter(session, "master", conn,
                                   PollOutcome(conn, read) = "raised")
        /\ IF master_positions.is_none
           THEN /\ pc' = "aborted"
                /\ UNCHANGED <<trackerVars, sigIdx, slaveIdx, results>>
           ELSE /\ compute_signals(master_positions.list)
                /\ pc' = AfterDetect(signals')
                /\ sigIdx' = 1
                /\ slaveIdx' = 1
                /\ results' = <<>>
                /\ UNCHANGED <<copy_sl, copy_tp>>
    /\ UNCHANGED <<running, venueVars, counters, restarts, summaries, ui, workers, callVars>>

Bump(counter, name, out) == IF out.counter = name THEN counter + 1 ELSE counter

AbortAfterFailure(res, i, j) ==
    IF res.status = "failed" THEN "done"
    ELSE IF i = Len(signals) /\ j = Len(slave_configs) THEN "done" ELSE "apply"

(* where the loops of _run_cycle stand after the result res of (i, j) *)
AfterResult(res, i, j) ==
    IF res.raised THEN "crashed"
    ELSE IF i = Len(signals) /\ j = Len(slave_configs) THEN "done" ELSE "apply"

(* _run_cycle, step 3: one pass of the inner loop *)
ApplySignalToSlave ==
    /\ pc = "apply"
    /\ sigIdx <= Len(signals)
    /\ \E conn \in ConnectOutcomes, read \in ReadOutcomes, order \in OrderOutcomes :
        \E sig \in {signals[sigIdx]}, cfg \in {slave_configs[slaveIdx]} :
        \E out \in {apply_signal_to_slave(sig, cfg, slavePos[cfg.name],
                                          copy_sl, copy_tp, conn, read, order)} :
        \E res \in {CopyResult(cfg, sig, out, Consulted(conn, read, order, out.calls))} :
            /\ Len(out.positions) <= MaxSlavePos
            /\ faults' = faults + Failures(res.gateway)
            /\ faults' <= MaxFaults
            /\ total_opens' = Bump(total_opens, "opens", out)
            /\ total_closes' = Bump(total_closes, "closes", out)
            /\ total_modifies' = Bump(total_modifies, "modifies", out)
            /\ total_errors' = Bump(total_errors, "errors", out)
            /\ slavePos' = [slavePos EXCEPT ![cfg.name] = out.positions]
            /\ results' = Append(results, res)
            /\ session' = SessionAfter(session, cfg.name, conn, out.fault # "")
            /\ pc' = AfterResult(res, sigIdx, slaveIdx)
            /\ IF slaveIdx < Len(slave_configs)
               THEN /\ slaveIdx' = slaveIdx + 1
                    /\ sigIdx' = sigIdx
               ELSE /\ slaveIdx' = 1
                    /\ sigIdx' = sigIdx + 1
    /\ UNCHANGED <<trackerVars, running, master, nextTicket, lastPoll, restarts,
                   summaries, ui, workers, callVars>>

(* start(): time.sleep(sleep_time), back to the head of the while loop *)
Sleep ==
    /\ pc \in {"aborted", "noop", "done"}
    /\ pc' = "idle"
    /\ lastPoll' = "none"
    /\ results' = <<>>
    /\ signals' = <<>>
    /\ prevBefore' = <<>>
    /\ snapshot' = <<>>
    /\ sigIdx' = 1
    /\ slaveIdx' = 1
    /\ UNCHANGED <<copy_sl, copy_tp, previous, running, venueVars, counters, envVars, callVars>>

(* start(): self._running = True, then the loop *)
Start ==
    /\ pc = "new"
    /\ pc' = "idle"
    /\ running' = TRUE
    /\ UNCHANGED <<trackerVars, venueVars, cycleVars, counters, envVars, callVars>>

(* stop(): self._running = False, called from another thread wherever the  *)
(* loop stands; every stop counted here is followed by a new start, so the *)
(* bound on restarts bounds the stops too                                  *)
Stop ==
    /\ pc \in {"idle", "apply", "noop", "done", "aborted"}
    /\ running
    /\ restarts < MaxRestarts
    /\ running' = FALSE
    /\ UNCHANGED <<trackerVars, pc, venueVars, cycleVars, counters, envVars, callVars>>

(* TradeCopier._print_summary: the line logged *)
print_summary ==
    [opens |-> total_opens, closes |-> total_closes,
     modifies |-> total_modifies, errors |-> total_errors]

(* a loop that looked at the flag after every application *)
LoopExitsAnywhere == ~running /\ pc \in {"idle", "apply"}

(* start(): `while self._running` is read at the head of the loop only *)
LoopExits == ~running /\ pc = "idle"

(* start(): while self._running is false: the loop ends, the summary is printed *)
Exit ==
    /\ LoopExits
    /\ pc' = "exited"
    /\ summaries' = Append(summaries, print_summary)
    /\ UNCHANGED <<trackerVars, running, venueVars, cycleVars, counters, faults,
                   restarts, ui, session, workers, callVars>>

(* TradeCopierApp._start_copier after a stop: a new TradeCopier, with a new *)
(* PositionTracker and counters at zero, for the same accounts.             *)
NewCopier ==
    /\ pc = "exited"
    /\ restarts' = restarts + 1
    /\ pc' = "new"
    /\ previous' = <<>>
    /\ total_opens' = 0
    /\ total_closes' = 0
    /\ total_modifies' = 0
    /\ total_errors' = 0
    /\ UNCHANGED <<copy_sl, copy_tp, signals, prevBefore, snapshot, running,
                   venueVars, cycleVars, faults, ui, session, workers, callVars>>
    /\ summaries' = <<>>

----------------------------------------------------------------------------
(* The master account's trader.  A cycle reads the master once, in Poll, so *)
(* a change made while a cycle runs is seen exactly as one made right after *)
(* it: the trader's steps are taken between cycles.  A trade               *)
(* is opened with or without a stop loss and without a take profit; the     *)
(* trader then sets the stop loss, then the take profit, then closes.       *)

BetweenCycles == pc = "idle" /\ running

MasterOpen ==
    /\ BetweenCycles
    /\ nextTicket <= MaxTicket
    /\ \E sl \in {0, MaxPrice} :
        master' = Append(master, Position(nextTicket, sl, 0))
    /\ nextTicket' = nextTicket + 1
    /\ UNCHANGED <<trackerVars, pc, running, slavePos, cycleVars, counters, envVars, callVars>>

MasterClose ==
    /\ BetweenCycles
    /\ \E i \in 1..Len(master) :
        master' = WithoutTicket(master, master[i].ticket)
    /\ UNCHANGED <<trackerVars, pc, running, nextTicket, slavePos, cycleVars,
                   counters, envVars, callVars>>

MasterModify ==
    /\ BetweenCycles
    /\ \E i \in 1..Len(master) :
        \/ /\ master[i].stop_loss = 0
           /\ master[i].take_profit = 0
           /\ master' = WithSlTp(master, master[i].ticket, MaxPrice, 0)
        \/ /\ master[i].stop_loss = MaxPrice
           /\ master[i].take_profit = 0
           /\ master' = WithSlTp(master, master[i].ticket, MaxPrice, MaxPrice)
    /\ UNCHANGED <<trackerVars, pc, running, nextTicket, slavePos, cycleVars,
                   counters, envVars, callVars>>

----------------------------------------------------------------------------

Init ==
    /\ copy_sl \in BOOLEAN
    /\ copy_tp \in BOOLEAN
    /\ previous = <<>>
    /\ signals = <<>>
    /\ prevBefore = <<>>
    /\ snapshot = <<>>
    /\ pc = "new"
    /\ running = FALSE
    /\ master = <<>>
    /\ nextTicket = 1
    /\ slavePos = [n \in SlaveNames |-> <<>>]
    /\ lastPoll = "none"
    /\ sigIdx = 1
    /\ slaveIdx = 1
    /\ results = <<>>
    /\ total_opens = 0
    /\ total_closes = 0
    /\ total_modifies = 0
    /\ total_errors = 0
    /\ faults = 0
    /\ restarts = 0
    /\ summaries = <<>>
    /\ ui = TradeCopierApp
    /\ session = "none"
    /\ workers = NoWorkers
    /\ arg = NoCall
    /\ ret = NoCall

Next ==
    \/ Start
    \/ Stop
    \/ Exit
    \/ NewCopier
    \/ Poll
    \/ ApplySignalToSlave
    \/ Sleep
    \/ MasterOpen
    \/ MasterClose
    \/ MasterModify

Spec == Init /\ [][Next]_vars

----------------------------------------------------------------------------
(* The detector on its own: any retained map, any snapshot *)

PositionsOf(t) == {Position(t, sl, tp) : sl \in PriceVals, tp \in PriceVals}

RECURSIVE Listings(_)
Listings(T) ==
    IF T = {} THEN {<<>>}
    ELSE UNION {{<<p>> \o rest : p \in PositionsOf(t), rest \in Listings(T \ {t})}
                    : t \in T}

(* every list of positions with pairwise distinct tickets, in any order *)
Snapshots == UNION {Listings(T) : T \in SUBSET Tickets}

TrackerInit ==
    /\ copy_sl \in BOOLEAN
    /\ copy_tp \in BOOLEAN
    /\ previous \in Snapshots
    /\ signals = <<>>
    /\ prevBefore = <<>>
    /\ snapshot = <<>>
    /\ pc = "t0"
    /\ running = FALSE
    /\ master = <<>>
    /\ nextTicket = 1
    /\ slavePos = [n \in SlaveNames |-> <<>>]
    /\ lastPoll = "none"
    /\ sigIdx = 1
    /\ slaveIdx = 1
    /\ results = <<>>
    /\ total_opens = 0
    /\ total_closes = 0
    /\ total_modifies = 0
    /\ total_errors = 0
    /\ faults = 0
    /\ restarts = 0
    /\ summaries = <<>>
    /\ ui = TradeCopierApp
    /\ session = "none"
    /\ workers = NoWorkers
    /\ arg = NoCall
    /\ ret = NoCall

TDetect ==
    /\ pc = "t0"
    /\ \E C \in Snapshots : compute_signals(C)
    /\ pc' = "t1"
    /\ UNCHANGED <<copy_sl, copy_tp, running, venueVars, cycleVars, counters, envVars, callVars>>

TDetectAgain ==
    /\ pc = "t1"
    /\ compute_signals(snapshot)
    /\ pc' = "t2"
    /\ UNCHANGED <<copy_sl, copy_tp, running, venueVars, cycleVars, counters, envVars, callVars>>

TrackerNext == TDetect \/ TDetectAgain

TrackerSpec == TrackerInit /\ [][TrackerNext]_vars

----------------------------------------------------------------------------
(* The detector on lists of up to three tickets, listed in any order: the   *)
(* retained positions have no stops set, the new snapshot's stops are unset *)
(* or at MaxPrice, so that one call can open, close and modify.             *)

MaxOrderTicket == 3

OrderTickets == 1..MaxOrderTicket

RECURSIVE ListingsAt(_, _)
ListingsAt(T, P) ==
    IF T = {} THEN {<<>>}
    ELSE UNION {{<<Position(t, sl, tp)>> \o rest :
                    sl \in P, tp \in P, rest \in ListingsAt(T \ {t}, P)}
                    : t \in T}

RetainedMaps == UNION {ListingsAt(T, {0}) : T \in SUBSET OrderTickets}

OrderSnapshots == UNION {ListingsAt(T, {0, MaxPrice}) : T \in SUBSET OrderTickets}

OrderInit ==
    /\ copy_sl \in BOOLEAN
    /\ copy_tp \in BOOLEAN
    /\ previous \in RetainedMaps
    /\ signals = <<>>
    /\ prevBefore = <<>>
    /\ snapshot = <<>>
    /\ pc = "o0"
    /\ running = FALSE
    /\ master = <<>>
    /\ nextTicket = 1
    /\ slavePos = [n \in SlaveNames |-> <<>>]
    /\ lastPoll = "none"
    /\ sigIdx = 1
    /\ slaveIdx = 1
    /\ results = <<>>
    /\ total_opens = 0
    /\ total_closes = 0
    /\ total_modifies = 0
    /\ total_errors = 0
    /\ faults = 0
    /\ restarts = 0
    /\ summaries = <<>>
    /\ ui = TradeCopierApp
    /\ session = "none"
    /\ workers = NoWorkers
    /\ arg = NoCall
    /\ ret = NoCall

ODetect ==
    /\ pc = "o0"
    /\ \E C \in OrderSnapshots : compute_signals(C)
    /\ pc' = "o1"
    /\ UNCHANGED <<copy_sl, copy_tp, running, venueVars, cycleVars, counters, envVars, callVars>>

OrderNext == ODetect

OrderSpec == OrderInit /\ [][OrderNext]_vars

----------------------------------------------------------------------------
(* Calls made on their own: the arguments are drawn, the call is made once. *)

(* the copier as constructed, but for the variables a call's arguments set *)
AtRest ==
    /\ previous = <<>>
    /\ signals = <<>>
    /\ prevBefore = <<>>
    /\ snapshot = <<>>
    /\ running = FALSE
    /\ master = <<>>
    /\ nextTicket = 1
    /\ lastPoll = "none"
    /\ sigIdx = 1
    /\ slaveIdx = 1
    /\ results = <<>>
    /\ total_opens = 0
    /\ total_closes = 0
    /\ total_modifies = 0
    /\ total_errors = 0
    /\ faults = 0
    /\ restarts = 0
    /\ summaries = <<>>
    /\ ui = TradeCopierApp
    /\ session = "none"
    /\ workers = NoWorkers

(* The detector on positions the venue has revalued: between two reads the *)
(* volume (a partial close), the comment, the magic number, the profit,    *)
(* the swap and the open price of a position may all have changed.         *)

Revalued(p, d) ==
    [ticket |-> p.ticket, symbol |-> p.symbol, order_type |-> p.order_type,
     volume |-> p.volume - d.volume, open_price |-> 1 + d.open_price,
     stop_loss |-> p.stop_loss, take_profit |-> p.take_profit,
     comment |-> d.comment, magic |-> d.magic, profit |-> d.profit,
     swap |-> d.swap]

NoDrift ==
    [volume |-> 0, open_price |-> 0, comment |-> <<>>, magic |-> 0,
     profit |-> 0, swap |-> 0]

Drifts ==
    { NoDrift,
      [NoDrift EXCEPT !.volume = 50],
      [NoDrift EXCEPT !.comment = <<"x">>, !.magic = 7],
      [NoDrift EXCEPT !.open_price = 1, !.profit = 5, !.swap = 1],
      [volume |-> 50, open_price |-> 1, comment |-> <<"x">>, magic |-> 7,
       profit |-> 5, swap |-> 1] }

DriftPrices == {0, 2}

DriftPositionsOf(t, drifts) ==
    {Revalued(Position(t, sl, tp), d) : sl \in DriftPrices, tp \in DriftPrices,
                                        d \in drifts}

RECURSIVE DriftListings(_, _)
DriftListings(T, drifts) ==
    IF T = {} THEN {<<>>}
    ELSE UNION {{<<p>> \o rest : p \in DriftPositionsOf(t, drifts),
                                 rest \in DriftListings(T \ {t}, drifts)}
                    : t \in T}

DriftTickets == {1, 2}

DriftInit ==
    /\ AtRest
    /\ copy_sl \in BOOLEAN
    /\ copy_tp \in BOOLEAN
    /\ pc = "call"
    /\ \E T \in SUBSET DriftTickets :
          arg \in [op : {"compute_signals"},
                   retained : {l \in DriftListings(T, {NoDrift}) :
                                  \A i \in 1..Len(l) - 1 : l[i].ticket < l[i + 1].ticket},
                   current_positions :
                       UNION {DriftListings(U, Drifts) : U \in SUBSET DriftTickets}]
    /\ ret = NoCall
    /\ slavePos = [n \in SlaveNames |-> <<>>]

(* the tracker retains arg.retained from the cycle before *)
DriftRetain ==
    /\ pc = "call"
    /\ previous = <<>>
    /\ arg.retained # <<>>
    /\ previous' = arg.retained
    /\ UNCHANGED <<copy_sl, copy_tp, signals, prevBefore, snapshot, pc, running,
                   venueVars, cycleVars, counters, envVars, callVars>>

(* compute_signals(arg.current_positions) *)
DriftDetect ==
    /\ pc = "call"
    /\ previous = arg.retained
    /\ compute_signals(arg.current_positions)
    /\ pc' = "returned"
    /\ UNCHANGED <<copy_sl, copy_tp, running, venueVars, cycleVars, counters,
                   envVars, callVars>>

DriftNext == DriftRetain \/ DriftDetect

DriftSpec == DriftInit /\ [][DriftNext]_vars

----------------------------------------------------------------------------
(* AccountConfig.calculate_lot for any mode, value and master volume.  A    *)
(* product that lies exactly half way between two hundredths is left out:  *)
(* which way round() takes it depends on the binary value of the float.    *)

LotValues == {10, 1000, 3333, 5000, 10000, 25000}
MasterLots == {1, 7, 33, 100, 200, 300}

(* numerator and denominator of the exact volume, in hundredths of a lot *)
ExactLot(cfg, master_lot) ==
    IF cfg.lot_mode = "fixed"
    THEN [n |-> cfg.lot_value, d |-> 100]
    ELSE [n |-> master_lot * cfg.lot_value, d |-> 10000]

HalfWay(cfg, master_lot) ==
    2 * (ExactLot(cfg, master_lot).n % ExactLot(cfg, master_lot).d)
        = ExactLot(cfg, master_lot).d

SizingArgs ==
    {a \in [cfg : {AccountConfig("S", TRUE, m, v) :
                      m \in {"fixed", "multiplier"}, v \in LotValues},
            master_lot : MasterLots] : ~HalfWay(a.cfg, a.master_lot)}

SizingInit ==
    /\ AtRest
    /\ copy_sl = TRUE
    /\ copy_tp = TRUE
    /\ pc = "call"
    /\ arg \in SizingArgs
    /\ ret = NoCall
    /\ slavePos = [n \in SlaveNames |-> <<>>]

CallCalculateLot ==
    /\ pc = "call"
    /\ ret' = calculate_lot(arg.cfg, arg.master_lot)
    /\ pc' = "returned"
    /\ UNCHANGED <<trackerVars, running, venueVars, cycleVars, counters, envVars, arg>>

SizingNext == CallCalculateLot

SizingSpec == SizingInit /\ [][SizingNext]_vars

(* _apply_signal_to_slave for any signal, any sizing and any account state *)

HandlerTickets == {1, 12}

HandlerSignals ==
    UNION {{CopySignal("open", t, SymbolOf(t), OrderTypeOf(t), 1, MaxPrice, 0),
            CopySignal("open", t, SymbolOf(t), OrderTypeOf(t), 100, MaxPrice, 0),
            CopySignal("close", t, SymbolOf(t), "None", 0, 0, 0),
            CopySignal("modify", t, SymbolOf(t), "None", 0, MaxPrice, MaxPrice)}
                : t \in HandlerTickets}

(* sizings: 0.1 x, 1.0 x, fixed 0.50 lot, fixed 0.001 lot *)
HandlerConfigs ==
    {AccountConfig("A", TRUE, "multiplier", 1000),
     AccountConfig("A", TRUE, "multiplier", 10000),
     AccountConfig("A", TRUE, "fixed", 5000),
     AccountConfig("A", TRUE, "fixed", 10)}

(* comments a position of the account may carry: the tag of a master       *)
(* ticket, the comment of a closing deal, none                             *)
AccountComments ==
    {slave_comment([master_ticket |-> t]) : t \in HandlerTickets}
        \cup {<<"M", "C", "-", "c", "l", "o", "s", "e">>, <<>>}

AccountPosition(ticket, comment) ==
    [ticket |-> ticket, symbol |-> "EURUSD",
     order_type |-> IF ticket % 2 = 1 THEN "BUY" ELSE "SELL",
     volume |-> IF ticket % 2 = 1 THEN 50 ELSE 70,
     stop_loss |-> 0, take_profit |-> 0, comment |-> comment]

AccountListings ==
    {<<>>}
      \cup {<<AccountPosition(101, c)>> : c \in AccountComments}
      \cup {<<AccountPosition(101, c), AccountPosition(102, d)>> :
                c \in AccountComments, d \in AccountComments}

HandlerInit ==
    /\ AtRest
    /\ copy_sl \in BOOLEAN
    /\ copy_tp \in BOOLEAN
    /\ pc = "call"
    /\ arg \in [sig : HandlerSignals, cfg : HandlerConfigs, positions : AccountListings]
    /\ ret = NoCall
    /\ slavePos = [n \in SlaveNames |-> IF n = arg.cfg.name THEN arg.positions ELSE <<>>]

(* one _apply_signal_to_slave call, with the counters it increments *)
CallApplySignal ==
    /\ pc = "call"
    /\ \E conn \in ConnectOutcomes, read \in ReadOutcomes, order \in OrderOutcomes :
        \E out \in {apply_signal_to_slave(arg.sig, arg.cfg, arg.positions,
                                          copy_sl, copy_tp, conn, read, order)} :
            /\ ret' = CopyResult(arg.cfg, arg.sig, out,
                                 Consulted(conn, read, order, out.calls))
            /\ total_opens' = Bump(total_opens, "opens", out)
            /\ total_closes' = Bump(total_closes, "closes", out)
            /\ total_modifies' = Bump(total_modifies, "modifies", out)
            /\ total_errors' = Bump(total_errors, "errors", out)
            /\ slavePos' = [slavePos EXCEPT ![arg.cfg.name] = out.positions]
    /\ pc' = "returned"
    /\ UNCHANGED <<trackerVars, running, master, nextTicket, cycleVars, envVars, arg>>

HandlerNext == CallApplySignal

HandlerSpec == HandlerInit /\ [][HandlerNext]_vars

(* The tag written by open_position and read back by get_copied_positions, *)
(* on an account that also holds positions the copier did not open.        *)

TagTickets == {1, 9, 10, 12, 100, 555, 1205}

(* comments that int() rejects after "MC-", or that lack the prefix *)
Undecodable ==
    {<<"M", "C", "-", "c", "l", "o", "s", "e">>, <<>>, <<"M", "C", "-">>,
     <<"X", "Y", "-", "1">>, <<"M", "C", "-", "1", "x">>}

ForeignComments ==
    Undecodable \cup {<<"M", "C", "-", "+", "1", "2">>, <<"M", "C", "-", "7">>}

TagInit ==
    /\ AtRest
    /\ copy_sl = TRUE
    /\ copy_tp = TRUE
    /\ pc = "call"
    /\ arg \in [ticket : TagTickets,
                 held : {<<>>} \cup {<<AccountPosition(201, c)>> : c \in ForeignComments}]
    /\ ret = NoCall
    /\ slavePos = [n \in SlaveNames |-> IF n = "A" THEN arg.held ELSE <<>>]

(* open_position fills the order for an Open signal of arg.ticket *)
OpenTagged ==
    /\ pc = "call"
    /\ \E sig \in {CopySignal("open", arg.ticket, "EURUSD", "BUY", 100, 0, 0)} :
          slavePos' = [slavePos EXCEPT
                         !["A"] = Append(@, OpenedPosition(@, sig, 50, copy_sl, copy_tp))]
    /\ pc' = "opened"
    /\ UNCHANGED <<trackerVars, running, master, nextTicket, cycleVars, counters,
                   envVars, callVars>>

(* someone else opens a position on the account *)
ForeignOpen ==
    /\ pc = "opened"
    /\ Len(slavePos["A"]) <= Len(arg.held) + 1
    /\ \E c \in ForeignComments :
          slavePos' = [slavePos EXCEPT !["A"] = Append(@, AccountPosition(202, c))]
    /\ UNCHANGED <<trackerVars, pc, running, master, nextTicket, cycleVars, counters,
                   envVars, callVars>>

ReadCopied ==
    /\ pc = "opened"
    /\ ret' = get_copied_positions(slavePos["A"])
    /\ pc' = "returned"
    /\ UNCHANGED <<trackerVars, running, venueVars, cycleVars, counters, envVars, arg>>

TagNext == OpenTagged \/ ForeignOpen \/ ReadCopied

TagSpec == TagInit /\ [][TagNext]_vars

----------------------------------------------------------------------------
(* The retry loop of MT5Connector.open_position and close_position, one    *)
(* mt5 call at a time, and the handler that receives its result.           *)

MaxRetries == 2

FILLING_MODES == <<"IOC", "FOK", "RETURN">>

(* what mt5.order_send gives back: no result, a retcode, or an exception;  *)
(* "requote_no_tick" is a requote after which symbol_info_tick has no tick *)
SendOutcomes ==
    {"none", "done", "requote", "requote_no_tick", "invalid_fill", "other", "raise"}

Requotes == {"requote", "requote_no_tick"}

Event(ev, st, what) ==
    [ev |-> ev, attempt |-> st.attempt, filling |-> st.filling,
     price |-> st.price, what |-> what]

(* the loop's locals: attempt and filling index, the price version read    *)
(* last, what was called so far, and the value returned ("-" while none)   *)
LoopState(attempt, filling, price, events, result) ==
    [attempt |-> attempt, filling |-> filling, price |-> price,
     events |-> events, result |-> result]

RetrySignal ==
    CASE arg.op = "open" ->
            CopySignal("open", 1, SymbolOf(1), OrderTypeOf(1), VolumeOf(1), 0, 0)
      [] arg.op = "close" -> CopySignal("close", 1, SymbolOf(1), "None", 0, 0, 0)
      [] arg.op = "modify" ->
            CopySignal("modify", 1, SymbolOf(1), "None", 0, MaxPrice, MaxPrice)

RetryConfig == AccountConfig("A", TRUE, "fixed", 5000)

RetryInit ==
    /\ AtRest
    /\ copy_sl = TRUE
    /\ copy_tp = TRUE
    /\ pc = "call"
    /\ arg \in [op : {"open", "close", "modify"}, max_retries : 0..MaxRetries]
    /\ ret = NoCall
    /\ slavePos = [n \in SlaveNames |->
                     IF n = "A" /\ arg.op \in {"close", "modify"}
                     THEN <<AccountPosition(101, slave_comment([master_ticket |-> 1]))>>
                     ELSE <<>>]

(* the head of the outer for loop: another attempt, or the final return *)
EnterAttempt(st, max_retries) ==
    IF st.attempt < max_retries
    THEN [st EXCEPT !.filling = 1]
    ELSE [st EXCEPT !.result = "fail"]

(* the function's first lines: the tick read, then the loop *)
BeginOrder ==
    /\ pc = "call"
    /\ arg.op \in {"open", "close"}
    /\ \E tick \in BOOLEAN :
        \E st \in {LoopState(0, 1, 1, <<[ev |-> "tick", attempt |-> 0, filling |-> 0,
                                         price |-> 0, what |-> tick]>>, "-")} :
            ret' = IF tick THEN EnterAttempt(st, arg.max_retries)
                           ELSE [st EXCEPT !.result = "fail"]
    /\ pc' = IF ret'.result = "-" THEN "send" ELSE "loop_returned"
    /\ UNCHANGED <<trackerVars, running, venueVars, cycleVars, counters, envVars, arg>>

(* open_position or close_position called on a connector that is not       *)
(* connected: if not self._connected: return                               *)
NotConnected ==
    /\ pc = "call"
    /\ arg.op \in {"open", "close"}
    /\ ret' = LoopState(0, 0, 0, <<>>, "fail")
    /\ pc' = "not_connected"
    /\ UNCHANGED <<trackerVars, running, venueVars, cycleVars, counters, envVars, arg>>

(* a loop that goes on to the next filling mode after an order was done *)
GoOnAfterDone(sent) == [pc |-> "send", st |-> sent]

(* if result.retcode == mt5.TRADE_RETCODE_DONE: return *)
AfterDone(sent) == [pc |-> "loop_returned", st |-> [sent EXCEPT !.result = "done"]]

AfterDelayNoCount(st, max_retries) == EnterAttempt(st, max_retries)

(* time.sleep(retry_delay_ms / 1000) is over: the next value of attempt *)
AfterDelay(st, max_retries) ==
    EnterAttempt([st EXCEPT !.attempt = st.attempt + 1], max_retries)

(* the inner for loop moves to the next filling mode, or is exhausted *)
Continue(st) ==
    IF st.filling < Len(FILLING_MODES)
    THEN [pc |-> "send", st |-> [st EXCEPT !.filling = st.filling + 1]]
    ELSE [pc |-> "delay", st |-> st]

(* one pass of the inner loop: the request is sent, the answer acted upon *)
OrderSend ==
    /\ pc = "send"
    /\ \E code \in SendOutcomes :
        \E sent \in {[ret EXCEPT !.events = Append(@, Event("send", ret, code))]} :
        \E read \in {[sent EXCEPT !.events = Append(@, Event("tick", sent, code = "requote")),
                                   !.price = IF code = "requote" THEN @ + 1 ELSE @]} :
            CASE code = "done" ->
                    /\ ret' = AfterDone(sent).st
                    /\ pc' = AfterDone(sent).pc
              [] code = "raise" ->
                    /\ ret' = [sent EXCEPT !.result = "raise"]
                    /\ pc' = "loop_returned"
              [] code = "none" ->
                    /\ ret' = Continue(sent).st
                    /\ pc' = Continue(sent).pc
              [] code \in Requotes ->
                    /\ ret' = Continue(read).st
                    /\ pc' = Continue(read).pc
              [] code \in {"invalid_fill", "other"} ->
                    /\ ret' = sent
                    /\ pc' = "delay"
    /\ UNCHANGED <<trackerVars, running, venueVars, cycleVars, counters, envVars, arg>>

(* the sleep that ends every attempt *)
RetryDelay ==
    /\ pc = "delay"
    /\ \E slept \in {[ret EXCEPT !.events = Append(@, Event("sleep", ret, "-"))]} :
          ret' = AfterDelay(slept, arg.max_retries)
    /\ pc' = IF ret'.result = "-" THEN "send" ELSE "loop_returned"
    /\ UNCHANGED <<trackerVars, running, venueVars, cycleVars, counters, envVars, arg>>

(* MT5Connector.modify_position: one request, whatever max_retries is *)
ModifySend ==
    /\ pc = "call"
    /\ arg.op = "modify"
    /\ \E code \in SendOutcomes :
        \E st \in {LoopState(0, 0, 0, <<>>, "-")} :
            ret' = [st EXCEPT !.events = <<Event("send", st, code)>>,
                              !.result = CASE code = "done" -> "done"
                                           [] code = "raise" -> "raise"
                                           [] OTHER -> "fail"]
    /\ pc' = "loop_returned"
    /\ UNCHANGED <<trackerVars, running, venueVars, cycleVars, counters, envVars, arg>>

(* _apply_signal_to_slave around the call: the handler turns the value the *)
(* loop returned, or the exception it raised, into the CopyResult          *)
HandleOrderResult ==
    /\ pc = "loop_returned"
    /\ \E out \in {apply_signal_to_slave(RetrySignal, RetryConfig, slavePos["A"],
                                          copy_sl, copy_tp, "ok", "list", ret.result)} :
            /\ results' = <<CopyResult(RetryConfig, RetrySignal, out,
                                       Consulted("ok", "list", ret.result, out.calls))>>
            /\ total_opens' = Bump(total_opens, "opens", out)
            /\ total_closes' = Bump(total_closes, "closes", out)
            /\ total_modifies' = Bump(total_modifies, "modifies", out)
            /\ total_errors' = Bump(total_errors, "errors", out)
            /\ slavePos' = [slavePos EXCEPT !["A"] = out.positions]
    /\ pc' = "returned"
    /\ UNCHANGED <<trackerVars, running, master, nextTicket, lastPoll, sigIdx,
                   slaveIdx, envVars, callVars>>

RetryNext ==
    \/ BeginOrder
    \/ NotConnected
    \/ OrderSend
    \/ RetryDelay
    \/ ModifySend
    \/ HandleOrderResult

RetrySpec == RetryInit /\ [][RetryNext]_vars

----------------------------------------------------------------------------
(* The desktop application.  The main thread runs one event handler at a    *)
(* time; every Start builds a TradeCopier and a daemon thread that runs its *)
(* loop.  What a cycle does is modelled above: here a cycle is one stay of  *)
(* a thread at "cycle".                                                     *)

MaxCopiers == 2
MaxSaves == 1

copierVars == <<trackerVars, pc, running, venueVars, cycleVars, counters, faults,
                restarts, summaries, session, workers, callVars>>

(* TradeCopier.__init__: the configuration of the new copier, not running; *)
(* stop_called records that stop() has been called on it                   *)
TradeCopier(master_cfg, slave_cfgs, settings) ==
    [master_config |-> master_cfg, slave_configs |-> slave_cfgs,
     settings |-> settings, running |-> FALSE, stop_called |-> FALSE]

(* the three configuration fields of the application *)
AppConfig(u) == <<u.master_cfg, u.slave_cfgs, u.settings>>

(* the three configuration fields of a copier *)
CopierConfig(c) == <<c.master_config, c.slave_configs, c.settings>>

(* load_config: the three parts read from one file *)
load_config(generation) == <<generation, generation, generation>>

Threads == 1..Len(ui.threads)

(* a main thread that handlers could share *)
MainThreadShared == TRUE

(* the event loop takes the next event only when the handler has returned *)
MainThreadFree == ui.handler = "none"

(* TradeCopierApp._stop_copier *)
stop_copier(u) ==
    [u EXCEPT !.copiers = IF u.copier_instance = 0
                          THEN u.copiers
                          ELSE [u.copiers EXCEPT ![u.copier_instance].running = FALSE,
                                                 ![u.copier_instance].stop_called = TRUE],
              !.running = FALSE]

(* _toggle_copier while nothing runs: _start_copier *)
StartCopier ==
    /\ pc = "ui"
    /\ MainThreadFree
    /\ ~ui.running
    /\ Len(ui.copiers) < MaxCopiers
    /\ ui' = [ui EXCEPT !.running = TRUE,
                        !.copiers = Append(@, TradeCopier(ui.master_cfg, ui.slave_cfgs,
                                                          ui.settings)),
                        !.copier_instance = Len(ui.copiers) + 1,
                        !.threads = Append(@, [at |-> "spawned", copier |-> 0])]
    /\ UNCHANGED copierVars

(* _toggle_copier while running: _stop_copier *)
StopCopier ==
    /\ pc = "ui"
    /\ MainThreadFree
    /\ ui.running
    /\ ui' = stop_copier(ui)
    /\ UNCHANGED copierVars

(* _on_copier_stopped, scheduled by a thread that has ended *)
OnCopierStopped ==
    /\ pc = "ui"
    /\ MainThreadFree
    /\ ui.after > 0
    /\ ui' = [ui EXCEPT !.running = FALSE, !.after = @ - 1]
    /\ UNCHANGED copierVars

(* _on_accounts_saved up to the first assignment: the copier is stopped,   *)
(* the file is loaded; a file that does not load ends the handler          *)
OnAccountsSaved ==
    /\ pc = "ui"
    /\ MainThreadFree
    /\ ui.saved < MaxSaves
    /\ \E loads \in BOOLEAN :
        \E u \in {IF ui.running THEN stop_copier(ui) ELSE ui} :
            ui' = IF loads
                  THEN [u EXCEPT !.saved = @ + 1,
                                 !.master_cfg = load_config(u.saved + 1)[1],
                                 !.handler = "master_assigned"]
                  ELSE [u EXCEPT !.saved = @ + 1]
    /\ UNCHANGED copierVars

(* _on_accounts_saved: self.slave_cfgs = new_slaves *)
AssignSlaves ==
    /\ pc = "ui"
    /\ ui.handler = "master_assigned"
    /\ ui' = [ui EXCEPT !.slave_cfgs = load_config(ui.saved)[2],
                        !.handler = "slaves_assigned"]
    /\ UNCHANGED copierVars

(* _on_accounts_saved: self.settings = new_settings, the handler returns *)
AssignSettings ==
    /\ pc = "ui"
    /\ ui.handler = "slaves_assigned"
    /\ ui' = [ui EXCEPT !.settings = load_config(ui.saved)[3],
                        !.handler = "none"]
    /\ UNCHANGED copierVars

(* _run_copier_thread: self._copier_instance.start(), which raises the     *)
(* flag of the copier the field names when the thread gets to run          *)
ThreadRun(i) ==
    /\ pc = "ui"
    /\ ui.threads[i].at = "spawned"
    /\ ui' = [ui EXCEPT !.threads[i] = [at |-> "head", copier |-> ui.copier_instance],
                        !.copiers[ui.copier_instance].running = TRUE]
    /\ UNCHANGED copierVars

(* start(): while self._running *)
ThreadLoopHead(i) ==
    /\ pc = "ui"
    /\ ui.threads[i].at = "head"
    /\ ui' = [ui EXCEPT !.threads[i].at =
                  IF ui.copiers[ui.threads[i].copier].running THEN "cycle" ELSE "finally"]
    /\ UNCHANGED copierVars

(* start(): _run_cycle and the sleep *)
ThreadCycle(i) ==
    /\ pc = "ui"
    /\ ui.threads[i].at = "cycle"
    /\ ui' = [ui EXCEPT !.threads[i].at = "head"]
    /\ UNCHANGED copierVars

(* start(): finally: self._running = False, the summary *)
ThreadLeave(i) ==
    /\ pc = "ui"
    /\ ui.threads[i].at = "finally"
    /\ ui' = [ui EXCEPT !.threads[i].at = "left",
                        !.copiers[ui.threads[i].copier].running = FALSE]
    /\ UNCHANGED copierVars

(* _run_copier_thread: finally: self._running = False, self.after(0, ...) *)
ThreadEnd(i) ==
    /\ pc = "ui"
    /\ ui.threads[i].at = "left"
    /\ ui' = [ui EXCEPT !.threads[i].at = "ended",
                        !.running = FALSE,
                        !.after = @ + 1]
    /\ UNCHANGED copierVars

UiInit ==
    /\ AtRest
    /\ copy_sl = TRUE
    /\ copy_tp = TRUE
    /\ pc = "ui"
    /\ slavePos = [n \in SlaveNames |-> <<>>]
    /\ arg = NoCall
    /\ ret = NoCall

UiNext ==
    \/ StartCopier
    \/ StopCopier
    \/ OnCopierStopped
    \/ OnAccountsSaved
    \/ AssignSlaves
    \/ AssignSettings
    \/ \E i \in Threads : ThreadRun(i)
    \/ \E i \in Threads : ThreadLoopHead(i)
    \/ \E i \in Threads : ThreadCycle(i)
    \/ \E i \in Threads : ThreadLeave(i)
    \/ \E i \in Threads : ThreadEnd(i)

UiSpec == UiInit /\ [][UiNext]_vars

----------------------------------------------------------------------------
(* The terminal session under the application's threads.  The copier       *)
(* thread's cycle is taken call by call: connect, the gateway calls, the   *)
(* shutdown of the finally clause; beside it run the connection probe the  *)
(* application starts while a copier runs and the connection test of the   *)
(* accounts dialog.  Each builds its own MT5Connector; the session they    *)
(* open and close is the one of the process.                               *)

(* the accounts of a cycle in the order it connects to them: the master,   *)
(* then the enabled slaves                                                 *)
CycleAccounts ==
    <<"master">> \o [i \in 1..Len(slave_configs) |-> slave_configs[i].name]

(* [self.master_cfg] + [s for s in self.slave_cfgs if s.enabled] *)
ProbeAccounts ==
    <<"master">> \o [i \in 1..Len(EnabledOnly(ConfiguredSlaves)) |->
                        EnabledOnly(ConfiguredSlaves)[i].name]

(* the accounts the dialog lists *)
DialogAccounts == {"master"} \cup SlaveNames

(* the connector as a thread holds it and the session as the process has it *)
Connector(connected) == [connected |-> connected, session |-> session]

(* _poll_master / _apply_signal_to_slave: connector.connect() *)
CycleConnect(i) ==
    /\ pc = "ui"
    /\ ui.threads[i].at = "cycle"
    /\ workers.copier.step = "connect"
    /\ \E conn \in {"ok", "fail"} :
        \E c \in {connect(session, CycleAccounts[workers.copier.k + 1], conn)} :
            /\ session' = c.session
            /\ workers' = [workers EXCEPT
                   !.copier.connected = c.connected,
                   !.copier.step = IF c.connected THEN "read" ELSE "finally"]
    /\ UNCHANGED <<trackerVars, pc, running, venueVars, cycleVars, counters, faults,
                   restarts, summaries, ui, callVars>>

(* get_positions for the master, get_copied_positions for a slave *)
CycleRead(i) ==
    /\ pc = "ui"
    /\ ui.threads[i].at = "cycle"
    /\ workers.copier.step = "read"
    /\ workers' = [workers EXCEPT
           !.last = [op |-> IF workers.copier.k = 0 THEN "get_positions"
                            ELSE "get_copied_positions",
                     account |-> CycleAccounts[workers.copier.k + 1],
                     session |-> session],
           !.copier.step = IF workers.copier.k = 0 THEN "finally" ELSE "order"]
    /\ UNCHANGED <<trackerVars, pc, running, venueVars, cycleVars, counters, faults,
                   restarts, summaries, ui, session, callVars>>

(* _handle_open, _handle_close, _handle_modify: the order sent for a slave *)
CycleOrder(i) ==
    /\ pc = "ui"
    /\ ui.threads[i].at = "cycle"
    /\ workers.copier.step = "order"
    /\ \E op \in {"open_position", "close_position", "modify_position"} :
        workers' = [workers EXCEPT
            !.last = [op |-> op,
                      account |-> CycleAccounts[workers.copier.k + 1],
                      session |-> session],
            !.copier.step = "finally"]
    /\ UNCHANGED <<trackerVars, pc, running, venueVars, cycleVars, counters, faults,
                   restarts, summaries, ui, session, callVars>>

(* finally: connector.shutdown(); then the next account of the cycle, or, *)
(* with no signal to propagate or the last slave done, the loop head      *)
CycleShutdown(i) ==
    /\ pc = "ui"
    /\ ui.threads[i].at = "cycle"
    /\ workers.copier.step = "finally"
    /\ session' = shutdown(Connector(workers.copier.connected))
    /\ \E has_signals \in BOOLEAN :
        \E goes_on \in {IF workers.copier.k = 0
                        THEN has_signals /\ Len(CycleAccounts) > 1
                        ELSE workers.copier.k + 1 < Len(CycleAccounts)} :
            /\ workers' = [workers EXCEPT
                   !.copier = [step |-> "connect",
                               k |-> IF goes_on THEN workers.copier.k + 1 ELSE 0,
                               connected |-> FALSE]]
            /\ ui' = [ui EXCEPT !.threads[i].at = IF goes_on THEN "cycle" ELSE "head"]
    /\ UNCHANGED <<trackerVars, pc, running, venueVars, cycleVars, counters, faults,
                   restarts, summaries, callVars>>

(* _poll_connections: if self._running and self._copier_instance, the *)
(* probe thread is started                                             *)
PollConnections ==
    /\ pc = "ui"
    /\ ui.running
    /\ ui.copier_instance # 0
    /\ workers.probe.at = "none"
    /\ workers' = [workers EXCEPT !.probe = [at |-> "connect", idx |-> 1,
                                             connected |-> FALSE]]
    /\ UNCHANGED <<trackerVars, pc, running, venueVars, cycleVars, counters, faults,
                   restarts, summaries, ui, session, callVars>>

(* _check_connections_bg: conn.connect(timeout_ms=4000) for the next account *)
ProbeConnect ==
    /\ pc = "ui"
    /\ workers.probe.at = "connect"
    /\ \E conn \in {"ok", "fail"} :
        \E c \in {connect(session, ProbeAccounts[workers.probe.idx], conn)} :
            /\ session' = c.session
            /\ workers' = [workers EXCEPT !.probe.connected = c.connected,
                                          !.probe.at = "finally"]
    /\ UNCHANGED <<trackerVars, pc, running, venueVars, cycleVars, counters, faults,
                   restarts, summaries, ui, callVars>>

(* _check_connections_bg: finally: conn.shutdown(), then the next account *)
ProbeShutdown ==
    /\ pc = "ui"
    /\ workers.probe.at = "finally"
    /\ session' = shutdown(Connector(workers.probe.connected))
    /\ workers' = [workers EXCEPT
           !.probe = IF workers.probe.idx < Len(ProbeAccounts)
                     THEN [at |-> "connect", idx |-> workers.probe.idx + 1,
                           connected |-> FALSE]
                     ELSE [at |-> "none", idx |-> 1, connected |-> FALSE]]
    /\ UNCHANGED <<trackerVars, pc, running, venueVars, cycleVars, counters, faults,
                   restarts, summaries, ui, callVars>>

(* _test_connection: the test thread is started for the account selected *)
TestConnection ==
    /\ pc = "ui"
    /\ workers.test.at = "none"
    /\ \E account \in DialogAccounts :
        workers' = [workers EXCEPT !.test = [at |-> "connect", account |-> account,
                                             connected |-> FALSE]]
    /\ UNCHANGED <<trackerVars, pc, running, venueVars, cycleVars, counters, faults,
                   restarts, summaries, ui, session, callVars>>

(* _test_connection_bg: conn.connect(timeout_ms=8000) *)
TestConnect ==
    /\ pc = "ui"
    /\ workers.test.at = "connect"
    /\ \E conn \in {"ok", "fail"} :
        \E c \in {connect(session, workers.test.account, conn)} :
            /\ session' = c.session
            /\ workers' = [workers EXCEPT
                   !.test = IF c.connected
                            THEN [@ EXCEPT !.connected = TRUE, !.at = "shutdown"]
                            ELSE [at |-> "none", account |-> "none",
                                  connected |-> FALSE]]
    /\ UNCHANGED <<trackerVars, pc, running, venueVars, cycleVars, counters, faults,
                   restarts, summaries, ui, callVars>>

(* _test_connection_bg: if ok: ... conn.shutdown() *)
TestShutdown ==
    /\ pc = "ui"
    /\ workers.test.at = "shutdown"
    /\ session' = shutdown(Connector(workers.test.connected))
    /\ workers' = [workers EXCEPT !.test = [at |-> "none", account |-> "none",
                                            connected |-> FALSE]]
    /\ UNCHANGED <<trackerVars, pc, running, venueVars, cycleVars, counters, faults,
                   restarts, summaries, ui, callVars>>

ProbeNext ==
    \/ StartCopier
    \/ \E i \in Threads : ThreadRun(i)
    \/ \E i \in Threads : ThreadLoopHead(i)
    \/ \E i \in Threads : CycleConnect(i)
    \/ \E i \in Threads : CycleRead(i)
    \/ \E i \in Threads : CycleOrder(i)
    \/ \E i \in Threads : CycleShutdown(i)
    \/ PollConnections
    \/ ProbeConnect
    \/ ProbeShutdown
    \/ TestConnection
    \/ TestConnect
    \/ TestShutdown

ProbeSpec == UiInit /\ [][ProbeNext]_vars

----------------------------------------------------------------------------
(* Properties of the replication cycle *)

EnabledNames == {slave_configs[i].name : i \in 1..Len(slave_configs)}

(* the open positions of account r whose comment decodes to master ticket t *)
TaggedFor(r, t) ==
    {i \in 1..Len(slavePos[r]) :
        IsCopied(slavePos[r][i]) /\ MasterTicketOf(slavePos[r][i]) = t}

(* C1: for every replica account R and every master ticket t, at most one  *)
(* open position on R carries the correlation tag "MC-t", also after a     *)
(* copier restart that empties the baseline while the master still holds t *)
C1_AtMostOneTaggedPosition ==
    \A r \in EnabledNames, t \in Tickets : Cardinality(TaggedFor(r, t)) <= 1

(* C2: when acquiring the master snapshot fails (connect returns false, or *)
(* connect or the read raises), the cycle aborts: the retained map, the    *)
(* signals, the replicas, the results and the counters are all unchanged.  *)
C2_FailedPollChangesNothing ==
    [][(pc = "idle" /\ lastPoll' \in {"connect_failed", "raised"})
          => /\ pc' = "aborted"
             /\ UNCHANGED <<previous, signals, results, slavePos, counters>>]_vars

(* a poll has failed while the baseline is not empty and the master has    *)
(* moved away from it                                                      *)
C2_Witness ==
    /\ pc = "aborted"
    /\ lastPoll \in {"connect_failed", "raised"}
    /\ previous # <<>>
    /\ Keys(previous) # Keys(master)
    /\ \E r \in EnabledNames : slavePos[r] # <<>>

(* C3: a master read that returns no result after a successful connect is  *)
(* an acquisition error: the cycle aborts, the baseline is kept and no     *)
(* Close signal is generated.                                              *)
C3_NoResultIsAnError ==
    [][(pc = "idle" /\ lastPoll' = "no_result")
          => /\ pc' = "aborted"
             /\ previous' = previous
             /\ \A i \in 1..Len(signals') : signals'[i].signal_type # "close"]_vars

NumSlaves == Len(slave_configs)

(* the signal and the slave the k-th result of a cycle belongs to *)
SignalAt(k) == signals[((k - 1) \div NumSlaves) + 1]
SlaveAt(k) == slave_configs[((k - 1) % NumSlaves) + 1]

(* the status the account's own gateway outcomes call for *)
OwnStatus(r) ==
    IF r.gateway[1] # "ok" THEN "failed"
    ELSE IF r.gateway[2] = "raise" THEN "failed"
    ELSE IF r.gateway[3] = "-" THEN "skipped"
    ELSE IF r.gateway[3] = "done" THEN "success"
    ELSE "failed"

(* C4: a cycle produces exactly one Result for every (signal, replica)     *)
(* pair, in signal order and, within a signal, in configuration order, and *)
(* each Result's status follows from that replica's own gateway outcomes.  *)
C4_CycleIsolation ==
    /\ pc \in {"apply", "done"} =>
          \A k \in 1..Len(results) :
              /\ results[k].signal = SignalAt(k)
              /\ results[k].slave_name = SlaveAt(k).name
              /\ results[k].status = OwnStatus(results[k])
    /\ pc = "apply" =>
          /\ Len(results) = (sigIdx - 1) * NumSlaves + (slaveIdx - 1)
          /\ Len(results) < Len(signals) * NumSlaves
    /\ pc = "done" => Len(results) = Len(signals) * NumSlaves

(* a cycle of two signals is over: the first replica's connect failed for  *)
(* the first signal, every other application succeeded                     *)
C4_Witness ==
    /\ pc = "done"
    /\ Len(signals) = 2
    /\ Len(results) = 2 * NumSlaves
    /\ results[1].gateway[1] = "fail"
    /\ results[1].status = "failed"
    /\ \A k \in 2..Len(results) : results[k].status = "success"

(* C5: a fault raised by connect, the lookup, open, close or modify while  *)
(* a signal is applied to a replica becomes a Failed Result carrying the   *)
(* fault's description; it does not leave _apply_signal_to_slave, and the  *)
(* cycle goes on with the remaining replicas and signals.                  *)
C5_FaultsBecomeFailedResults ==
    /\ pc # "crashed"
    /\ \A k \in 1..Len(results) :
          /\ ~results[k].raised
          /\ (\E c \in 1..3 : results[k].gateway[c] = "raise") <=> results[k].fault # ""
          /\ results[k].fault # "" =>
                /\ results[k].status = "failed"
                /\ results[k].error_message = results[k].fault
                /\ \/ pc = "apply" /\ Len(results) < Len(signals) * NumSlaves
                   \/ pc = "done" /\ Len(results) = Len(signals) * NumSlaves

(* the order call raised for the first replica, and the next replica was   *)
(* served                                                                  *)
C5_Witness ==
    /\ pc = "done"
    /\ Len(results) >= 2
    /\ results[1].gateway[3] = "raise"
    /\ results[1].status = "failed"
    /\ results[2].status = "success"

(* no later cycle will generate a signal: the loop is between cycles and   *)
(* the baseline is the master's present state                              *)
Settled == pc = "idle" /\ running /\ previous = CurrentMap(master)

Mirrored(r) ==
    /\ \A t \in Keys(master) : Cardinality(TaggedFor(r, t)) = 1
    /\ \A i \in 1..Len(slavePos[r]) :
          IsCopied(slavePos[r][i]) => MasterTicketOf(slavePos[r][i]) \in Keys(master)

(* C6: once the master has stopped changing and every call succeeds, every *)
(* enabled replica with positive sizing comes to hold exactly one tagged   *)
(* position for each open master ticket and none for any other ticket.     *)
(* When the loop is settled no later cycle changes a replica, so the       *)
(* replicas must be mirrored already.                                      *)
C6_SettledIsConsistent ==
    Settled =>
        \A i \in 1..Len(slave_configs) :
            (\A p \in 1..Len(master) :
                calculate_lot(slave_configs[i], master[p].volume) > 0)
            => Mirrored(slave_configs[i].name)

----------------------------------------------------------------------------
(* Properties of the detector, stated over the last compute_signals call:  *)
(* prevBefore is the map it compared against, snapshot its argument,       *)
(* signals its return value.                                               *)

Detected == pc \in {"t1", "t2"}

OfKind(kind) == {i \in 1..Len(signals) : signals[i].signal_type = kind}

About(kind, t) == {i \in OfKind(kind) : signals[i].master_ticket = t}

SnapshotTickets == {snapshot[i].ticket : i \in 1..Len(snapshot)}

(* the position the snapshot lists for ticket t *)
Listed(t) == snapshot[CHOOSE i \in 1..Len(snapshot) : snapshot[i].ticket = t]

OneOpenPerNewTicket ==
    /\ \A t \in SnapshotTickets \ Keys(prevBefore) : Cardinality(About("open", t)) = 1
    /\ \A i \in OfKind("open") :
          signals[i].master_ticket \in SnapshotTickets \ Keys(prevBefore)

OpenCarriesTrade(i) ==
    /\ signals[i].symbol = Listed(signals[i].master_ticket).symbol
    /\ signals[i].order_type = Listed(signals[i].master_ticket).order_type
    /\ signals[i].volume = Listed(signals[i].master_ticket).volume

(* C7, as amended: compute_signals(C) emits exactly one Open signal for     *)
(* each ticket of C that is not in the retained map and none for any other  *)
(* ticket; each carries the position's symbol, side and volume, its         *)
(* stopLoss when copy_sl is set and 0 otherwise, and its takeProfit when    *)
(* copy_tp is set and 0 otherwise.                                          *)
C7_OpenDetection ==
    Detected =>
        /\ OneOpenPerNewTicket
        /\ \A i \in OfKind("open") :
              /\ OpenCarriesTrade(i)
              /\ signals[i].stop_loss =
                    IF copy_sl THEN Listed(signals[i].master_ticket).stop_loss ELSE 0
              /\ signals[i].take_profit =
                    IF copy_tp THEN Listed(signals[i].master_ticket).take_profit ELSE 0

(* C7, as first stated: every Open signal carries the position's stopLoss  *)
(* and takeProfit, whatever the copy settings.                             *)
C7_OpenCarriesStops ==
    Detected =>
        /\ OneOpenPerNewTicket
        /\ \A i \in OfKind("open") :
              /\ OpenCarriesTrade(i)
              /\ signals[i].stop_loss = Listed(signals[i].master_ticket).stop_loss
              /\ signals[i].take_profit = Listed(signals[i].master_ticket).take_profit

(* a new ticket with a stop loss is detected beside a retained one, with   *)
(* copy_sl off                                                             *)
C7_Witness ==
    /\ pc = "t1"
    /\ ~copy_sl
    /\ copy_tp
    /\ prevBefore # <<>>
    /\ \E i \in OfKind("open") :
          /\ Listed(signals[i].master_ticket).stop_loss # 0
          /\ Listed(signals[i].master_ticket).take_profit # 0
          /\ signals[i].take_profit # 0
    /\ Keys(prevBefore) \cap SnapshotTickets # {}

(* C8: compute_signals(C) emits exactly one Close signal for each ticket   *)
(* of the retained map that is not in C, carrying that ticket and the      *)
(* retained position's symbol, and no Close signal for any other ticket.   *)
C8_CloseDetection ==
    Detected =>
        /\ \A t \in Keys(prevBefore) \ SnapshotTickets :
              Cardinality(About("close", t)) = 1
        /\ \A i \in OfKind("close") :
              /\ signals[i].master_ticket \in Keys(prevBefore) \ SnapshotTickets
              /\ signals[i].symbol = Lookup(prevBefore, signals[i].master_ticket).symbol

(* one retained ticket is gone while another is still listed *)
C8_Witness ==
    /\ pc = "t1"
    /\ OfKind("close") # {}
    /\ Keys(prevBefore) \cap SnapshotTickets # {}
    /\ SnapshotTickets \ Keys(prevBefore) = {}

SlMoved(t) == Abs(Listed(t).stop_loss - Lookup(prevBefore, t).stop_loss) > Eps
TpMoved(t) == Abs(Listed(t).take_profit - Lookup(prevBefore, t).take_profit) > Eps

ModifyCarriesNewStops ==
    \A i \in OfKind("modify") :
        /\ signals[i].master_ticket \in Keys(prevBefore) \cap SnapshotTickets
        /\ signals[i].stop_loss = Listed(signals[i].master_ticket).stop_loss
        /\ signals[i].take_profit = Listed(signals[i].master_ticket).take_profit

(* C9, as amended: for every ticket in both the retained map and the new   *)
(* snapshot, compute_signals emits exactly one Modify signal, carrying the *)
(* new stopLoss and takeProfit, if and only if copy_sl is set and the      *)
(* stopLoss moved by more than the tolerance, or copy_tp is set and the    *)
(* takeProfit moved by more than the tolerance; otherwise it emits none.   *)
C9_ModifyThreshold ==
    Detected =>
        /\ ModifyCarriesNewStops
        /\ \A t \in Keys(prevBefore) \cap SnapshotTickets :
              Cardinality(About("modify", t)) =
                 IF (copy_sl /\ SlMoved(t)) \/ (copy_tp /\ TpMoved(t)) THEN 1 ELSE 0

(* C9, as first stated: the Modify signal is emitted if and only if the    *)
(* stopLoss or the takeProfit moved by more than the tolerance.            *)
C9_ModifyWheneverMoved ==
    Detected =>
        /\ ModifyCarriesNewStops
        /\ \A t \in Keys(prevBefore) \cap SnapshotTickets :
              Cardinality(About("modify", t)) =
                 IF SlMoved(t) \/ TpMoved(t) THEN 1 ELSE 0

(* with both copy settings on: one ticket moved by exactly the tolerance   *)
(* and gets no signal, another moved by more and gets one                  *)
C9_Witness ==
    /\ pc = "t1"
    /\ copy_sl
    /\ copy_tp
    /\ \E t \in Keys(prevBefore) \cap SnapshotTickets :
          /\ Abs(Listed(t).stop_loss - Lookup(prevBefore, t).stop_loss) = Eps
          /\ Abs(Listed(t).take_profit - Lookup(prevBefore, t).take_profit) = Eps
          /\ About("modify", t) = {}
    /\ \E t \in Keys(prevBefore) \cap SnapshotTickets :
          /\ SlMoved(t)
          /\ ~TpMoved(t)
          /\ Cardinality(About("modify", t)) = 1

(* C10: compute_signals(S) called a second time with the same snapshot,    *)
(* nothing in between, returns the empty list.                             *)
C10_SecondCallIsEmpty == pc = "t2" => signals = <<>>

(* the second call has run on a snapshot that is not empty, from a tracker *)
(* that retains it                                                         *)
C10_Witness ==
    /\ pc = "t2"
    /\ snapshot # <<>>
    /\ Keys(previous) = SnapshotTickets
    /\ signals = <<>>

----------------------------------------------------------------------------
(* Order of the signals one compute_signals call returns *)

KindRank(kind) ==
    CASE kind = "open" -> 1
      [] kind = "close" -> 2
      [] kind = "modify" -> 3

(* C11: in the list one compute_signals call returns, every Open signal    *)
(* precedes every Close signal and every Close signal precedes every       *)
(* Modify signal.                                                          *)
C11_OpensThenClosesThenModifies ==
    pc = "o1" =>
        \A i \in 1..Len(signals), j \in 1..Len(signals) :
            i < j => KindRank(signals[i].signal_type) <= KindRank(signals[j].signal_type)

(* one call has returned an Open, a Close and a Modify *)
C11_Witness ==
    /\ pc = "o1"
    /\ OfKind("open") # {}
    /\ OfKind("close") # {}
    /\ OfKind("modify") # {}

(* C12: within each signal kind the signals are in ascending master-ticket *)
(* order, in whatever order the snapshot source lists the positions.       *)
C12_AscendingWithinKind ==
    pc = "o1" =>
        \A i \in 1..Len(signals), j \in 1..Len(signals) :
            (i < j /\ signals[i].signal_type = signals[j].signal_type)
                => signals[i].master_ticket < signals[j].master_ticket

----------------------------------------------------------------------------
(* Order in which a cycle applies its signals *)

(* where the k-th result's signal stands in the detector's list, and where *)
(* its slave stands in the configuration                                   *)
SigPos(k) == CHOOSE i \in 1..Len(signals) : signals[i] = results[k].signal
CfgPos(k) ==
    CHOOSE i \in 1..Len(ConfiguredSlaves) :
        ConfiguredSlaves[i].name = results[k].slave_name

(* C13: within a cycle the signals are applied in the detector's emission  *)
(* order and each signal to the enabled replicas in configuration order,   *)
(* one application after the other; every Open of the cycle has been      *)
(* applied to all enabled replicas before a Close or a Modify is applied.  *)
C13_ApplicationOrder ==
    pc \in {"apply", "done"} =>
        /\ \A k \in 1..Len(results) :
              /\ \E i \in 1..Len(signals) : signals[i] = results[k].signal
              /\ results[k].slave_name \in EnabledNames
        /\ \A k \in 1..Len(results), l \in 1..Len(results) :
              k < l => \/ SigPos(k) < SigPos(l)
                       \/ SigPos(k) = SigPos(l) /\ CfgPos(k) < CfgPos(l)
        /\ \A k \in 1..Len(results) :
              results[k].signal.signal_type # "open" =>
                  \A i \in OfKind("open"), r \in EnabledNames :
                      \E l \in 1..(k - 1) :
                          /\ results[l].signal = signals[i]
                          /\ results[l].slave_name = r

(* a cycle with an Open and a Close is over, every application made *)
C13_Witness ==
    /\ pc = "done"
    /\ OfKind("open") # {}
    /\ OfKind("close") # {}
    /\ Len(results) = Len(signals) * NumSlaves
    /\ results[Len(results)].signal.signal_type = "close"
    /\ results[1].status = "success"

----------------------------------------------------------------------------
(* Properties of one _apply_signal_to_slave call *)

Returned == pc = "returned"

CountersAtZero ==
    total_opens = 0 /\ total_closes = 0 /\ total_modifies = 0 /\ total_errors = 0

(* C14: when the sizing of an Open signal gives a volume <= 0, the Result  *)
(* _handle_open returns is Skipped; open_position is not called, the       *)
(* account's positions stay as they were and no counter, the error counter *)
(* included, changes.                                                      *)
C14_NoOrderForZeroLot ==
    (/\ Returned
     /\ arg.sig.signal_type = "open"
     /\ calculate_lot(arg.cfg, arg.sig.volume) <= 0)
        => /\ ~Called(ret.calls, {"open_position"})
           /\ slavePos[arg.cfg.name] = arg.positions
           /\ CountersAtZero
           /\ ret.gateway[1] = "ok" => ret.status = "skipped"

(* an Open of 0.01 lot sized at 0.1 x has been skipped on a connected      *)
(* account                                                                 *)
C14_Witness ==
    /\ Returned
    /\ arg.sig.signal_type = "open"
    /\ arg.sig.volume = 1
    /\ arg.cfg.lot_mode = "multiplier"
    /\ calculate_lot(arg.cfg, arg.sig.volume) = 0
    /\ ret.gateway[1] = "ok"
    /\ ret.status = "skipped"

(* the positions of the call's account that carry the tag of ticket t *)
TaggedInArg(t) ==
    {i \in 1..Len(arg.positions) : arg.positions[i].comment = slave_comment([master_ticket |-> t])}

(* C17: a Close or Modify signal for master ticket t reaching an account   *)
(* with no open position tagged for t gives a Skipped Result; neither      *)
(* close_position nor modify_position is called and the error counter is   *)
(* not incremented.                                                        *)
C17_CorrelationMissIsSkipped ==
    (/\ Returned
     /\ arg.sig.signal_type \in {"close", "modify"}
     /\ TaggedInArg(arg.sig.master_ticket) = {})
        => /\ ~Called(ret.calls, {"close_position", "modify_position"})
           /\ slavePos[arg.cfg.name] = arg.positions
           /\ CountersAtZero
           /\ (ret.gateway[1] = "ok" /\ ret.gateway[2] # "raise")
                  => ret.status = "skipped"

(* a Close has been skipped on an account that holds a position tagged for *)
(* another ticket and the remains of a closing deal                        *)
C17_Witness ==
    /\ Returned
    /\ arg.sig.signal_type = "close"
    /\ TaggedInArg(arg.sig.master_ticket) = {}
    /\ Len(arg.positions) = 2
    /\ \E t \in HandlerTickets : TaggedInArg(t) # {}
    /\ \E i \in 1..2 : arg.positions[i].comment = <<"M", "C", "-", "c", "l", "o", "s", "e">>
    /\ ret.gateway[2] = "list"
    /\ ret.status = "skipped"

(* the position of the call's account that is tagged for ticket t, when    *)
(* there is exactly one                                                    *)
TheTagged(t) == arg.positions[CHOOSE i \in TaggedInArg(t) : TRUE]

OppositeSide(side) == IF side = "BUY" THEN "SELL" ELSE "BUY"

(* C31: when the replica holds an open position tagged for the signal's    *)
(* master ticket, the close is issued for that position (its ticket, its   *)
(* volume, the opposite side) and the modify for that position's ticket    *)
(* with the signal's stop loss and take profit, never for the master's     *)
(* ticket; the Result is Success or Failed as the gateway's call returns.  *)
C31_TargetsCorrelatedPosition ==
    (/\ Returned
     /\ arg.sig.signal_type \in {"close", "modify"}
     /\ Cardinality(TaggedInArg(arg.sig.master_ticket)) = 1
     /\ ret.gateway[1] = "ok"
     /\ ret.gateway[2] # "raise")
        => /\ ret.request.action =
                 IF arg.sig.signal_type = "close" THEN "DEAL" ELSE "SLTP"
           /\ ret.request.position = TheTagged(arg.sig.master_ticket).ticket
           /\ ret.request.position # arg.sig.master_ticket
           /\ arg.sig.signal_type = "close" =>
                 /\ Called(ret.calls, {"close_position"})
                 /\ ret.request.volume = TheTagged(arg.sig.master_ticket).volume
                 /\ ret.request.type =
                       OppositeSide(TheTagged(arg.sig.master_ticket).order_type)
           /\ arg.sig.signal_type = "modify" =>
                 /\ Called(ret.calls, {"modify_position"})
                 /\ ret.request.sl = arg.sig.stop_loss
                 /\ ret.request.tp = arg.sig.take_profit
           /\ ret.status = IF ret.gateway[3] = "done" THEN "success" ELSE "failed"

(* C31 for the reads that returned the account's list *)
C31_WhenListed ==
    (Returned /\ ret.gateway[2] = "list") => C31_TargetsCorrelatedPosition

----------------------------------------------------------------------------
(* Properties of the sizing function *)

(* h hundredths is the hundredth nearest to n / d *)
NearestHundredth(h, n, d) == 2 * Abs(h * d - n) < d

(* C15: calculate_lot returns, in fixed mode, the configured value rounded *)
(* to 2 decimal places whatever the master volume, and in multiplier mode  *)
(* master volume times value rounded to 2 decimal places; fixed 0.5 with   *)
(* master 3.0 gives 0.5 and multiplier 0.1 with master 2.0 gives 0.2.      *)
C15_Sizing ==
    Returned =>
        /\ arg.cfg.lot_mode = "fixed" =>
                NearestHundredth(ret, arg.cfg.lot_value, 100)
        /\ arg.cfg.lot_mode = "multiplier" =>
                NearestHundredth(ret, arg.master_lot * arg.cfg.lot_value, 10000)
        /\ (arg.cfg.lot_mode = "fixed" /\ arg.cfg.lot_value = 5000
                /\ arg.master_lot = 300) => ret = 50
        /\ (arg.cfg.lot_mode = "multiplier" /\ arg.cfg.lot_value = 1000
                /\ arg.master_lot = 200) => ret = 20

(* fixed 0.5 has been sized for a master volume of 3.0 *)
C15_Witness ==
    /\ Returned
    /\ arg.cfg.lot_mode = "fixed"
    /\ arg.cfg.lot_value = 5000
    /\ arg.master_lot = 300
    /\ ret = 50

----------------------------------------------------------------------------
(* Properties of the correlation tag *)

(* the comments get_copied_positions reads as master ticket t among those  *)
(* an account of this model carries                                        *)
ReadingsOf(t) ==
    {<<"M", "C", "-">> \o Str(t)}
        \cup (IF t = 12 THEN {<<"M", "C", "-", "+", "1", "2">>} ELSE {})

Account == slavePos["A"]

(* the position open_position created: the one listed after those held *)
OpenedAt == Len(arg.held) + 1

(* C16: a position whose comment is the tag written for master ticket t is *)
(* returned by get_copied_positions under key t and under no other key,    *)
(* every key's position carries a comment that reads as that key, and a    *)
(* position whose comment does not decode to an integer after "MC-" is     *)
(* returned under no key.                                                  *)
C16_TagRoundTrip ==
    Returned =>
        /\ Account[OpenedAt].comment = <<"M", "C", "-">> \o Str(arg.ticket)
        /\ arg.ticket \in DOMAIN ret
        /\ \A k \in DOMAIN ret :
              /\ \E i \in 1..Len(Account) : Account[i] = ret[k]
              /\ ret[k].comment \in ReadingsOf(k)
              /\ ret[k].comment \notin Undecodable
              /\ ret[k] = Account[OpenedAt] => k = arg.ticket
        /\ (\A i \in (OpenedAt + 1)..Len(Account) :
                 Account[i].comment \notin ReadingsOf(arg.ticket))
              => ret[arg.ticket] = Account[OpenedAt]

(* ticket 555 is read back from an account that holds a closing deal's     *)
(* comment before it and another copier's tag after it                     *)
C16_Witness ==
    /\ Returned
    /\ arg.ticket = 555
    /\ Len(Account) = 3
    /\ Account[1].comment = <<"M", "C", "-", "c", "l", "o", "s", "e">>
    /\ Account[3].comment = <<"M", "C", "-", "7">>
    /\ DOMAIN ret = {555, 7}
    /\ ret[555] = Account[2]

----------------------------------------------------------------------------
(* Properties of the lifetime counters *)

(* 1 when the result is of the given kind and status *)
Tally(res, kinds, status) ==
    IF res.signal.signal_type \in kinds /\ res.status = status THEN 1 ELSE 0

AllKinds == {"open", "close", "modify"}

(* the result a step of the cycle has just produced *)
NewResult == results'[Len(results')]

(* C18: the lifetime counters match the Results: every Success Result of   *)
(* kind Open, Close, Modify adds one to total_opens, total_closes,         *)
(* total_modifies, every Failed Result, whatever its cause, adds one to    *)
(* total_errors, a Skipped Result changes no counter, and no counter       *)
(* decreases during a run.                                                 *)
C18_CountersMatchResults ==
    [][/\ (pc = "apply" /\ Len(results') = Len(results) + 1) =>
            /\ total_opens' = total_opens + Tally(NewResult, {"open"}, "success")
            /\ total_closes' = total_closes + Tally(NewResult, {"close"}, "success")
            /\ total_modifies' = total_modifies + Tally(NewResult, {"modify"}, "success")
            /\ total_errors' = total_errors + Tally(NewResult, AllKinds, "failed")
       /\ (pc # "apply" /\ pc # "exited") =>
            UNCHANGED counters]_vars

----------------------------------------------------------------------------
(* Properties of the retry loop *)

InLoop == pc \in {"send", "delay", "loop_returned", "returned"}

EventsOf(ev) == {i \in 1..Len(ret.events) : ret.events[i].ev = ev}

(* C19: one open or close application makes at most max_retries attempts,  *)
(* each sending at most one order per filling mode; it always terminates;  *)
(* when every attempt has failed the loop returns its failure value, the   *)
(* Result is Failed, the error counter is incremented and no exception     *)
(* leaves _apply_signal_to_slave.                                          *)
C19_BoundedRetries ==
    /\ (InLoop /\ arg.op \in {"open", "close"}) =>
          /\ \A i \in EventsOf("send") :
                /\ ret.events[i].attempt < arg.max_retries
                /\ \A j \in EventsOf("send") :
                      (/\ ret.events[j].attempt = ret.events[i].attempt
                       /\ ret.events[j].filling = ret.events[i].filling) => j = i
          /\ Cardinality(EventsOf("send")) <= arg.max_retries * Len(FILLING_MODES)
          /\ Cardinality(EventsOf("sleep")) <= arg.max_retries
    /\ pc \in {"call", "send", "delay", "loop_returned"} => ENABLED RetryNext
    /\ (Returned /\ arg.op \in {"open", "close"} /\ ret.result = "fail") =>
          /\ results[1].status = "failed"
          /\ ~results[1].raised
          /\ total_errors = 1
          /\ total_opens = 0 /\ total_closes = 0

(* every order of two attempts was refused: six orders, two sleeps, a      *)
(* Failed Result and one error counted                                     *)
C19_Witness ==
    /\ Returned
    /\ arg.op = "close"
    /\ arg.max_retries = MaxRetries
    /\ ret.result = "fail"
    /\ Cardinality(EventsOf("send")) = MaxRetries * Len(FILLING_MODES)
    /\ Cardinality(EventsOf("sleep")) = MaxRetries
    /\ results[1].status = "failed"
    /\ total_errors = 1

(* C20: after an order submission that fails with a requote the price is   *)
(* re-read and the next submission follows at once, with no sleep between  *)
(* the requote and that submission, on every filling mode, the last one    *)
(* included.                                                               *)
C20_NoDelayAfterRequote ==
    InLoop =>
        \A i \in EventsOf("send") :
            ret.events[i].what \in Requotes =>
                /\ i + 1 <= Len(ret.events) => ret.events[i + 1].ev = "tick"
                /\ i + 2 <= Len(ret.events) => ret.events[i + 2].ev = "send"

(* C21: when an order is refused with an invalid-fill or unsupported       *)
(* retcode on filling mode k, the same attempt next sends the order with   *)
(* filling mode k + 1; the attempt is given up on this kind of refusal     *)
(* only after the last filling mode.                                       *)
C21_NextFillingAfterInvalidFill ==
    InLoop =>
        \A i \in EventsOf("send") :
            (/\ ret.events[i].what = "invalid_fill"
             /\ ret.events[i].filling < Len(FILLING_MODES)
             /\ i + 1 <= Len(ret.events))
                => /\ ret.events[i + 1].ev = "send"
                   /\ ret.events[i + 1].attempt = ret.events[i].attempt
                   /\ ret.events[i + 1].filling = ret.events[i].filling + 1

(* the attempts in which an order was sent *)
AttemptsMade == {ret.events[i].attempt : i \in EventsOf("send")}

(* C22: every application, of kind Open, Close and Modify alike, runs      *)
(* inside the bounded retry loop: when its submissions fail, max_retries   *)
(* attempts have been made before the Result is Failed; a Modify whose     *)
(* first submission fails is attempted again.                              *)
C22_EveryKindIsRetried ==
    (Returned /\ ret.result = "fail" /\ EventsOf("send") # {}) =>
        /\ results[1].status = "failed"
        /\ AttemptsMade = 0..(arg.max_retries - 1)

----------------------------------------------------------------------------
(* Signals across cycles *)

(* the master's state for the signal's ticket differs between the baseline *)
(* prev and the snapshot snap in the way the signal's kind reports         *)
ChangedSince(prev, snap, sig) ==
    LET t == sig.master_ticket
        cur == CurrentMap(snap)
    IN  CASE sig.signal_type = "open" -> t \notin Keys(prev) /\ t \in Keys(cur)
          [] sig.signal_type = "close" -> t \in Keys(prev) /\ t \notin Keys(cur)
          [] sig.signal_type = "modify" ->
                /\ t \in Keys(prev) \cap Keys(cur)
                /\ \/ Lookup(prev, t).stop_loss # Lookup(cur, t).stop_loss
                   \/ Lookup(prev, t).take_profit # Lookup(cur, t).take_profit

(* C23: a signal is a point-in-time instruction.  The baseline advances to *)
(* the snapshot in the cycle that reads it, whatever the replicas answer,  *)
(* and no application moves it; a later cycle applies a signal for ticket  *)
(* t only if t's state in its snapshot differs from the snapshot before    *)
(* (t left or entered it, or its stops changed), so an application that    *)
(* ended Failed or Skipped is not made again.                              *)
C23_SignalsArePointInTime ==
    [][/\ pc = "apply" => previous' = previous /\ signals' = signals
       /\ (pc = "idle" /\ pc' \in {"apply", "noop"}) =>
            /\ previous' = CurrentMap(snapshot')
            /\ \A i \in 1..Len(signals') :
                  ChangedSince(previous, snapshot', signals'[i])
            /\ Keys(previous) = Keys(CurrentMap(snapshot')) =>
                  \A i \in 1..Len(signals') : signals'[i].signal_type = "modify"]_vars

(* an Open failed on replica A; a later cycle has read the unchanged       *)
(* master and found nothing to do, and A still lacks the position          *)
C23_Witness ==
    /\ pc = "noop"
    /\ lastPoll = "ok"
    /\ restarts = 0
    /\ faults = 1
    /\ Len(master) = 1
    /\ previous = CurrentMap(master)
    /\ slavePos["A"] = <<>>
    /\ slavePos["B"] # <<>>

----------------------------------------------------------------------------
(* Stopping the loop *)

Stopped == ~running /\ pc \in {"idle", "apply", "noop", "done", "aborted"}

(* C24: once stop() is called while the loop is running, the cycle in      *)
(* flight runs to completion, no further cycle is started, the loop exits  *)
(* and the summary of the lifetime counters is reported exactly once.      *)
C24_StopAtCycleBoundary ==
    [][/\ (Stopped /\ pc = "apply") =>
            /\ Len(results') = Len(results) + 1
            /\ pc' = IF Len(results') = Len(signals) * NumSlaves
                      THEN "done" ELSE "apply"
       /\ (Stopped /\ pc \in {"noop", "done", "aborted"}) => pc' = "idle"
       /\ (Stopped /\ pc = "idle") =>
            /\ pc' = "exited"
            /\ UNCHANGED <<previous, signals, results, slavePos, counters>>
            /\ summaries' = <<print_summary>>
       /\ Stopped => ~running'
       /\ (pc # "idle" \/ running) =>
            (summaries' = summaries \/ (pc = "exited" /\ summaries' = <<>>))]_vars

(* stop() has been called while a cycle of two applications had made the   *)
(* first: the flag is down and the second application is still to come     *)
C24_Witness ==
    /\ ~running
    /\ pc = "apply"
    /\ Len(signals) * NumSlaves = 2
    /\ Len(results) = 1
    /\ total_opens = 1
    /\ summaries = <<>>

----------------------------------------------------------------------------
(* Orders of one open_position call *)

DoneSends == {i \in EventsOf("send") : ret.events[i].what = "done"}

(* C36: within one open_position call no order is submitted after one has  *)
(* returned DONE, so one application of an Open creates at most one        *)
(* replica position; on a connector that is not connected, or without a    *)
(* price tick, the call returns its failure value and submits no order.    *)
C36_AtMostOneOrderPerOpen ==
    /\ pc = "not_connected" =>
          /\ EventsOf("send") = {}
          /\ ret.result = "fail"
    /\ (InLoop /\ arg.op = "open") =>
          /\ \A i \in DoneSends : \A j \in EventsOf("send") : j <= i
          /\ Cardinality(DoneSends) <= 1
          /\ ret.events[1].what = FALSE =>
                /\ EventsOf("send") = {}
                /\ ret.result = "fail"
    /\ (Returned /\ arg.op = "open") =>
          Len(slavePos["A"]) = Cardinality(DoneSends)

(* the third order of an open_position call was done, after two that got   *)
(* no result: the account holds the one position                           *)
C36_Witness ==
    /\ Returned
    /\ arg.op = "open"
    /\ Cardinality(EventsOf("send")) = 3
    /\ DoneSends # {}
    /\ Len(slavePos["A"]) = 1
    /\ results[1].status = "success"

----------------------------------------------------------------------------
(* What the detector does not look at *)

(* the fields of a position other than volume, comment, magic, profit,     *)
(* swap and open price                                                     *)
Watched(p) ==
    <<p.ticket, p.symbol, p.order_type, p.stop_loss, p.take_profit>>

DriftOnly(prev, cur) ==
    /\ Len(cur) = Len(prev)
    /\ Keys(cur) = Keys(prev)
    /\ \A t \in Keys(cur) : Watched(Lookup(cur, t)) = Watched(Lookup(prev, t))

(* C28: when the new snapshot has the tickets of the retained map and each *)
(* position differs from its retained version only in volume, comment,     *)
(* magic, profit, swap or open price, compute_signals returns no signals.  *)
C28_DriftIsNoTrigger ==
    (pc = "returned" /\ arg.op = "compute_signals"
        /\ DriftOnly(prevBefore, snapshot)) => signals = <<>>

(* two positions, one with half its volume closed and the other with every *)
(* unwatched field changed, both flags on: nothing is signalled            *)
C28_Witness ==
    /\ pc = "returned"
    /\ arg.op = "compute_signals"
    /\ copy_sl /\ copy_tp
    /\ DriftOnly(prevBefore, snapshot)
    /\ Len(snapshot) = 2
    /\ \E i \in 1..2 : snapshot[i].volume # Lookup(prevBefore, snapshot[i].ticket).volume
    /\ \E i \in 1..2 :
          /\ snapshot[i].comment # Lookup(prevBefore, snapshot[i].ticket).comment
          /\ snapshot[i].profit # Lookup(prevBefore, snapshot[i].ticket).profit
          /\ snapshot[i].open_price # Lookup(prevBefore, snapshot[i].ticket).open_price
    /\ snapshot[1].stop_loss = 2
    /\ signals = <<>>

----------------------------------------------------------------------------
(* The retained map of a running copier *)

(* C29: the retained map of a running copier is emptied only by reset(),   *)
(* which the copier never calls, or by a snapshot that is genuinely empty: *)
(* a step that empties it is a poll of a master account without positions. *)
C29_RetainedMapNotEmptiedImplicitly ==
    [][(pc = "idle" /\ previous # <<>> /\ previous' = <<>>) =>
            (master = <<>> /\ snapshot' = <<>>)]_vars

----------------------------------------------------------------------------
(* The baseline one compute_signals call leaves behind *)

Known == {known_tickets[i] : i \in 1..Len(known_tickets)}

(* C30: within one compute_signals(C) call every Open, Close and Modify    *)
(* decision is taken against the map retained before the call, and after   *)
(* the call the retained tickets are exactly the tickets of C, each mapped *)
(* to its position in C.                                                   *)
C30_AtomicBaselineReplacement ==
    pc = "o1" =>
        /\ \A t \in OrderTickets :
              /\ About("open", t) # {} <=> t \in SnapshotTickets \ Keys(prevBefore)
              /\ About("close", t) # {} <=> t \in Keys(prevBefore) \ SnapshotTickets
              /\ About("modify", t) # {} <=>
                    /\ t \in Keys(prevBefore) \cap SnapshotTickets
                    /\ (copy_sl /\ SlMoved(t)) \/ (copy_tp /\ TpMoved(t))
        /\ Known = SnapshotTickets
        /\ Len(known_tickets) = Cardinality(SnapshotTickets)
        /\ \A t \in Known : Lookup(previous, t) = Listed(t)

(* one call that opened a ticket, closed another and modified a third: the *)
(* retained map now holds the two listed positions with their new stops    *)
C30_Witness ==
    /\ pc = "o1"
    /\ OfKind("open") # {}
    /\ OfKind("close") # {}
    /\ OfKind("modify") # {}
    /\ Len(known_tickets) = 2
    /\ previous # prevBefore
    /\ \E t \in Known \cap Keys(prevBefore) :
          Lookup(previous, t).stop_loss # Lookup(prevBefore, t).stop_loss

----------------------------------------------------------------------------
(* Terminal sessions *)

(* the calls of one application open with connect and close with shutdown *)
Bracketed(calls) ==
    /\ calls[1] = "connect"
    /\ calls[Len(calls)] = "shutdown"
    /\ \A i \in 2..(Len(calls) - 1) : calls[i] \notin {"connect", "shutdown"}

(* C32: every successful connect is followed by the shutdown of that       *)
(* session before the next connect to any account and before the cycle     *)
(* ends, whether the body returned, skipped, failed or raised: after the   *)
(* master's poll and after each application no session is open, and none   *)
(* is open between cycles.                                                 *)
C32_SessionScoping ==
    /\ session = "none"
    /\ \A k \in 1..Len(results) : Bracketed(results[k].calls)

(* a cycle is over in which a call raised on a replica that had connected  *)
(* and the other replica's application returned                            *)
C32_Witness ==
    /\ pc = "done"
    /\ session = "none"
    /\ Len(results) = 2
    /\ \E k \in 1..2 :
          /\ results[k].gateway[1] = "ok"
          /\ results[k].fault # ""
    /\ \E k \in 1..2 : results[k].status = "success"

----------------------------------------------------------------------------
(* The cycle that finds nothing to do *)

(* C33: when the detector returns no signals for a snapshot that was read, *)
(* the cycle ends without connecting to or calling any replica and without *)
(* changing any counter.                                                   *)
C33_NoOpCycle ==
    [][/\ (pc = "idle" /\ pc' \notin {"idle", "exited", "aborted"}
                /\ signals' = <<>>) =>
            /\ pc' = "noop"
            /\ results' = <<>>
            /\ UNCHANGED <<counters, slavePos>>
       /\ pc = "noop" =>
            /\ pc' \in {"noop", "idle"}
            /\ results' = <<>>
            /\ UNCHANGED <<counters, slavePos, session>>]_vars

(* the second cycle has read the unchanged master, which holds a position  *)
(* both replicas copied, and found nothing to do                           *)
C33_Witness ==
    /\ pc = "noop"
    /\ lastPoll = "ok"
    /\ Len(snapshot) = 1
    /\ signals = <<>>
    /\ results = <<>>
    /\ total_opens = 2
    /\ faults = 0

----------------------------------------------------------------------------
(* The copy settings *)

ReplicaPositions ==
    UNION {{slavePos[r][i] : i \in 1..Len(slavePos[r])} : r \in SlaveNames}

ModifyRequests ==
    {results[k].request : k \in {j \in 1..Len(results) :
                                    results[j].request.action = "SLTP"}}

(* C34: with copy_sl off no open or modify request carries the master's    *)
(* stop loss or overwrites a replica position's stop loss, and likewise    *)
(* for copy_tp and the take profit, a Modify triggered by a change of the  *)
(* other field included.  The replicas' positions are opened by the copier *)
(* alone, so a stop that is not copied stays unset.                        *)
C34_CopySettingsHold ==
    /\ ~copy_sl =>
          /\ \A p \in ReplicaPositions : p.stop_loss = 0
          /\ \A q \in ModifyRequests : q.sl = 0
    /\ ~copy_tp =>
          /\ \A p \in ReplicaPositions : p.take_profit = 0
          /\ \A q \in ModifyRequests : q.tp = 0

----------------------------------------------------------------------------
(* The tickets one compute_signals call signals *)

TicketsOf(kind) == {signals[i].master_ticket : i \in OfKind(kind)}

(* C35: in the list one compute_signals call returns no master ticket is   *)
(* the subject of more than one signal; the Open tickets are exactly those *)
(* of the snapshot that were not retained, the Close tickets exactly the   *)
(* retained ones that are not in the snapshot, the Modify tickets are in   *)
(* both, and the three sets are pairwise disjoint.                         *)
C35_OneSignalPerTicket ==
    pc = "o1" =>
        /\ \A t \in OrderTickets :
              Cardinality({i \in 1..Len(signals) : signals[i].master_ticket = t}) <= 1
        /\ TicketsOf("open") = SnapshotTickets \ Keys(prevBefore)
        /\ TicketsOf("close") = Keys(prevBefore) \ SnapshotTickets
        /\ TicketsOf("modify") \subseteq Keys(prevBefore) \cap SnapshotTickets
        /\ TicketsOf("open") \cap TicketsOf("close") = {}
        /\ TicketsOf("open") \cap TicketsOf("modify") = {}
        /\ TicketsOf("close") \cap TicketsOf("modify") = {}

(* one call has signalled three tickets, one of each kind, with only the   *)
(* stop loss copied                                                        *)
C35_Witness ==
    /\ pc = "o1"
    /\ copy_sl
    /\ ~copy_tp
    /\ Len(signals) = 3
    /\ Cardinality(TicketsOf("open")) = 1
    /\ Cardinality(TicketsOf("close")) = 1
    /\ Cardinality(TicketsOf("modify")) = 1

----------------------------------------------------------------------------
(* Enabled and disabled replicas *)

NamesWhere(flag) ==
    {ConfiguredSlaves[i].name :
        i \in {j \in 1..Len(ConfiguredSlaves) : ConfiguredSlaves[j].enabled = flag}}

(* C26: no connect, open, close or modify call is ever made against a      *)
(* replica whose enabled flag is false, and when a cycle is over every     *)
(* enabled replica has a Result for every signal of the cycle.             *)
C26_OnlyEnabledReplicas ==
    /\ \A d \in NamesWhere(FALSE) :
          /\ slavePos[d] = <<>>
          /\ \A k \in 1..Len(results) : results[k].slave_name # d
    /\ pc = "done" =>
          \A i \in 1..Len(signals), r \in NamesWhere(TRUE) :
              Cardinality({k \in 1..Len(results) :
                              /\ results[k].signal = signals[i]
                              /\ results[k].slave_name = r}) = 1

(* a cycle with two signals is over: the two enabled replicas have been    *)
(* contacted for both, the disabled one holds nothing                      *)
C26_Witness ==
    /\ pc = "done"
    /\ Len(signals) = 2
    /\ Len(results) = 4
    /\ NamesWhere(FALSE) = {"D"}
    /\ \A k \in 1..4 : Called(results[k].calls, {"connect"})
    /\ slavePos["A"] # <<>>

----------------------------------------------------------------------------
(* Properties of the desktop application *)

InCycle == {i \in Threads : ui.threads[i].at = "cycle"}

(* C25: at no time are two replication cycles executing concurrently,      *)
(* whatever the sequence of Start and Stop: a copier thread is never in a  *)
(* cycle while a thread started before it is still inside one.             *)
C25_NoConcurrentCycles == Cardinality(InCycle) <= 1

(* all three parts come from one configuration file *)
Whole(config) == \E g \in 0..MaxSaves + 1 : config = load_config(g)

(* no handler of the application is under way *)
HandlerDone(u) == u.handler = "none"

(* C27: handling a saved-accounts event replaces the master profile, the   *)
(* replica list and the settings together or, when the file does not load, *)
(* leaves all three as they were; a copier keeps the whole configuration   *)
(* it was constructed with, whatever is reloaded while its cycle runs.     *)
C27_ReloadIsAtomic ==
    [][/\ (HandlerDone(ui) /\ HandlerDone(ui')) => AppConfig(ui') = AppConfig(ui)
       /\ (~HandlerDone(ui) /\ HandlerDone(ui')) => AppConfig(ui') = load_config(ui'.saved)
       /\ \A c \in 1..Len(ui'.copiers) :
            /\ Whole(CopierConfig(ui'.copiers[c]))
            /\ c <= Len(ui.copiers) =>
                 CopierConfig(ui'.copiers[c]) = CopierConfig(ui.copiers[c])]_vars

(* a copier thread is inside a cycle with the configuration of the launch  *)
(* while the application holds the configuration of the file saved since   *)
C27_Witness ==
    /\ HandlerDone(ui)
    /\ AppConfig(ui) = load_config(1)
    /\ \E i \in InCycle :
        CopierConfig(ui.copiers[ui.threads[i].copier]) = load_config(0)

(* C37: once stop() has been called on a TradeCopier its loop starts no    *)
(* further cycle, whatever the interleaving of the main thread and the     *)
(* copier threads, a stop() that comes before start() has raised the flag  *)
(* included.                                                               *)
C37_StopIsNeverLost ==
    [][\A i \in Threads :
          (ui.threads[i].at = "head" /\ ui'.threads[i].at = "cycle") =>
              ~ui.copiers[ui.threads[i].copier].stop_called]_vars

(* C38: the application's running flag is true whenever the copier started *)
(* last has not been asked to stop: the end of an earlier copier's thread  *)
(* never marks a newer copier as stopped, so that a toggle cannot start a  *)
(* second copier beside a live one.                                        *)
C38_RunningFlagTracksLatest ==
    (ui.copier_instance # 0 /\ ~ui.copiers[ui.copier_instance].stop_called)
        => ui.running

(* C39: every read, open, close or modify the copier issues for an account *)
(* executes while the session of the process is the one that account's     *)
(* connector established: no other thread's connect or shutdown comes      *)
(* between the connect and the call.                                       *)
C39_SessionExclusive ==
    workers.last.op # "none" => workers.last.session = workers.last.account

====
